---- MODULE Spec2Model ----
(***************************************************************************)
(* Dev-Janitor, src-tauri/src/security_scan: the rule-driven security      *)
(* scanner for locally installed AI coding tools.                          *)
(*                                                                         *)
(* Strings that the code searches, splits or formats are sequences of      *)
(* one-character strings, so that contains(), split() and to_string() are  *)
(* computed as the code computes them.  Strings that the code only copies  *)
(* or compares for equality (ids, descriptions, remediation texts) are     *)
(* TLA+ strings.                                                           *)
(***************************************************************************)
EXTENDS Integers, Sequences, FiniteSets, TLC

VARIABLES
  ports_table,   \* the OS port table, as get_ports_in_use() reports it
  listening,     \* ports on which a TCP connect to 127.0.0.1 succeeds
  environ,       \* process environment: variable name -> value or Unset
  fs,            \* filesystem: absolute path -> node
  RULES,         \* the OnceLock cell of ai_tool_security_rules()
  last,          \* what the latest command returned and the I/O it made
  memo,          \* history: one earlier full scan, kept for comparison
  threads        \* the threads that call get_rules() or run a scan command

vars == <<ports_table, listening, environ, fs, RULES, last, memo, threads>>

sys == <<ports_table, listening, environ, fs>>

-----------------------------------------------------------------------------
(* Option<T>: None is the empty sequence, Some(x) the one-element sequence *)

None == <<>>

Some(x) == <<x>>

IsSome(o) == Len(o) = 1

-----------------------------------------------------------------------------
(* std string operations used by the scanner                               *)

\* str::contains(&str): substring search; the empty needle is found anywhere
Contains(hay, needle) ==
  \E i \in 0..(Len(hay) - Len(needle)) :
     SubSeq(hay, i + 1, i + Len(needle)) = needle

UpperChars ==
  <<"A","B","C","D","E","F","G","H","I","J","K","L","M",
    "N","O","P","Q","R","S","T","U","V","W","X","Y","Z">>

LowerChars ==
  <<"a","b","c","d","e","f","g","h","i","j","k","l","m",
    "n","o","p","q","r","s","t","u","v","w","x","y","z">>

LowerChar(c) ==
  IF \E k \in 1..Len(UpperChars) : UpperChars[k] = c
  THEN LowerChars[CHOOSE k \in 1..Len(UpperChars) : UpperChars[k] = c]
  ELSE c

\* str::to_lowercase
to_lowercase(s) == [i \in 1..Len(s) |-> LowerChar(s[i])]

DigitChars == <<"0","1","2","3","4","5","6","7","8","9">>

\* u16::to_string / {} of an unsigned integer: decimal, no leading zeros
RECURSIVE to_string(_)
to_string(n) ==
  IF n < Len(DigitChars)
  THEN <<DigitChars[n + 1]>>
  ELSE to_string(n \div Len(DigitChars))
         \o <<DigitChars[(n % Len(DigitChars)) + 1]>>

\* str::split(char): the pieces between separators, empty pieces included
RECURSIVE SplitFrom(_, _, _, _)
SplitFrom(s, sep, i, piece) ==
  IF i > Len(s) THEN <<piece>>
  ELSE IF s[i] = sep
       THEN <<piece>> \o SplitFrom(s, sep, i + 1, <<>>)
       ELSE SplitFrom(s, sep, i + 1, Append(piece, s[i]))

split(s, sep) == SplitFrom(s, sep, 1, <<>>)

-----------------------------------------------------------------------------
(* definitions.rs: risk levels and the rule catalog                        *)

RiskLevel == {"Critical", "High", "Medium", "Low"}

Rule_clawdbot ==
  [id |-> "clawdbot", name |-> "Clawdbot",
   description |-> "Open-source AI agent gateway with MCP support",
   docs_url |-> "https://github.com/clawdbot/clawdbot",
   process_names |-> <<"clawdbot", "clawdbot-server", "clawdbot-gateway">>,
   ports |-> <<
      [port |-> 18789, name |-> <<"C","l","a","w","d","b","o","t"," ","G","a","t","e","w","a","y">>,
       description |-> "Primary gateway port - should NOT be exposed to internet",
       risk_if_exposed |-> "Critical",
       safe_bindings |-> <<<<"1","2","7",".","0",".","0",".","1">>, <<"l","o","c","a","l","h","o","s","t">>, <<":",":","1">>>>],
      [port |-> 18790, name |-> <<"C","l","a","w","d","b","o","t"," ","C","o","n","t","r","o","l"," ","U","I">>,
       description |-> "Admin web interface - exposes API keys and chat history",
       risk_if_exposed |-> "Critical",
       safe_bindings |-> <<<<"1","2","7",".","0",".","0",".","1">>, <<"l","o","c","a","l","h","o","s","t">>, <<":",":","1">>>>]>>,
   configs |-> <<
      [name |-> <<"E","x","p","o","s","e","d"," ","t","r","u","s","t","e","d","P","r","o","x","i","e","s">>,
       description |-> "trustedProxies may allow localhost auth bypass via reverse proxy",
       check |-> [kind |-> "FileMissing", path_pattern |-> "**/clawdbot.config.*",
                  pattern |-> <<"t","r","u","s","t","e","d","P","r","o","x","i","e","s">>],
       risk_level |-> "High",
       remediation |->
         <<"S","e","t"," ","g","a","t","e","w","a","y",".","t","r","u","s","t","e","d","P","r","o","x","i","e","s"," ","t","o"," ","o","n","l","y"," ","t","r","u","s","t","e","d"," ","r","e","v","e","r","s","e"," ","p","r","o","x","y"," ","I","P","s">>],
      [name |-> <<"A","P","I"," ","K","e","y","s"," ","i","n"," ","C","o","n","f","i","g">>,
       description |-> "Anthropic/OpenAI API keys stored in plaintext config",
       check |-> [kind |-> "FileContains", path_pattern |-> "**/clawdbot.config.*",
                  pattern |-> <<"s","k","-","a","n","t","-","|","s","k","-">>],
       risk_level |-> "High",
       remediation |->
         <<"U","s","e"," ","e","n","v","i","r","o","n","m","e","n","t"," ","v","a","r","i","a","b","l","e","s"," ","f","o","r"," ","A","P","I"," ","k","e","y","s"," ","i","n","s","t","e","a","d"," ","o","f"," ","c","o","n","f","i","g"," ","f","i","l","e","s">>]>>,
   config_paths |-> <<<<".","c","l","a","w","d","b","o","t","/">>, <<".","c","o","n","f","i","g","/","c","l","a","w","d","b","o","t","/">>>>]

Rule_opencode ==
  [id |-> "opencode", name |-> "OpenCode",
   description |-> "Terminal-based AI coding assistant (CVE-2026-22812)",
   docs_url |-> "https://github.com/opencode-ai/opencode",
   process_names |-> <<"opencode">>,
   ports |-> <<
      [port |-> 4096, name |-> <<"O","p","e","n","C","o","d","e"," ","H","T","T","P"," ","S","e","r","v","e","r">>,
       description |-> "CVE-2026-22812: Unauthenticated HTTP server with CORS * - allows RCE from any website",
       risk_if_exposed |-> "Critical",
       safe_bindings |-> <<<<"1","2","7",".","0",".","0",".","1">>>>],
      [port |-> 4097, name |-> <<"O","p","e","n","C","o","d","e"," ","H","T","T","P"," ","S","e","r","v","e","r"," ","(","a","l","t",")">>,
       description |-> "CVE-2026-22812: Alternative port when 4096 is in use",
       risk_if_exposed |-> "Critical",
       safe_bindings |-> <<<<"1","2","7",".","0",".","0",".","1">>>>],
      [port |-> 8765, name |-> <<"O","p","e","n","C","o","d","e"," ","D","e","b","u","g"," ","S","e","r","v","e","r">>,
       description |-> "Debug/MCP server - should be localhost only",
       risk_if_exposed |-> "High",
       safe_bindings |-> <<<<"1","2","7",".","0",".","0",".","1">>, <<"l","o","c","a","l","h","o","s","t">>>>]>>,
   configs |-> <<
      [name |-> <<"A","P","I"," ","K","e","y","s"," ","i","n"," ","C","o","n","f","i","g">>,
       description |-> "API keys stored in opencode config",
       check |-> [kind |-> "FileContains", path_pattern |-> "**/opencode.json",
                  pattern |-> <<"s","k","-">>],
       risk_level |-> "High",
       remediation |->
         <<"U","s","e"," ","e","n","v","i","r","o","n","m","e","n","t"," ","v","a","r","i","a","b","l","e","s"," ","f","o","r"," ","A","P","I"," ","k","e","y","s","."," ","U","p","d","a","t","e"," ","t","o"," ","O","p","e","n","C","o","d","e"," ",">","="," ","1",".","0",".","2","1","6"," ","t","o"," ","f","i","x"," ","C","V","E","-","2","0","2","6","-","2","2","8","1","2">>]>>,
   config_paths |-> <<<<".","o","p","e","n","c","o","d","e","/">>, <<".","c","o","n","f","i","g","/","o","p","e","n","c","o","d","e","/">>>>]

Rule_aider ==
  [id |-> "aider", name |-> "Aider",
   description |-> "AI pair programming in your terminal",
   docs_url |-> "https://aider.chat",
   process_names |-> <<"aider">>,
   ports |-> <<
      [port |-> 8501, name |-> <<"A","i","d","e","r"," ","W","e","b"," ","U","I">>,
       description |-> "Aider browser interface",
       risk_if_exposed |-> "Medium",
       safe_bindings |-> <<<<"1","2","7",".","0",".","0",".","1">>, <<"l","o","c","a","l","h","o","s","t">>>>]>>,
   configs |-> <<
      [name |-> <<"A","P","I"," ","K","e","y","s"," ","i","n"," ",".","a","i","d","e","r",".","c","o","n","f">>,
       description |-> "API keys in aider config file",
       check |-> [kind |-> "FileContains", path_pattern |-> "**/.aider.conf*",
                  pattern |-> <<"a","p","i","_","k","e","y">>],
       risk_level |-> "Medium",
       remediation |->
         <<"U","s","e"," ","O","P","E","N","A","I","_","A","P","I","_","K","E","Y"," ","o","r"," ","A","N","T","H","R","O","P","I","C","_","A","P","I","_","K","E","Y"," ","e","n","v","i","r","o","n","m","e","n","t"," ","v","a","r","i","a","b","l","e","s">>]>>,
   config_paths |-> <<<<".","a","i","d","e","r",".","c","o","n","f",".","y","m","l">>, <<".","a","i","d","e","r","/">>>>]

Rule_claude_code ==
  [id |-> "claude-code", name |-> "Claude Code",
   description |-> "Anthropic's official AI coding CLI",
   docs_url |-> "https://docs.anthropic.com/claude-code",
   process_names |-> <<"claude", "claude-code">>,
   ports |-> <<
      [port |-> 9222, name |-> <<"C","l","a","u","d","e"," ","C","o","d","e"," ","D","e","b","u","g"," ","P","o","r","t">>,
       description |-> "Chrome DevTools debug protocol port",
       risk_if_exposed |-> "Critical",
       safe_bindings |-> <<<<"1","2","7",".","0",".","0",".","1">>>>]>>,
   configs |-> <<>>,
   config_paths |-> <<<<".","c","l","a","u","d","e","/">>>>]

Rule_codex_cli ==
  [id |-> "codex-cli", name |-> "Codex CLI",
   description |-> "OpenAI's Codex command-line tool",
   docs_url |-> "https://github.com/openai/codex-cli",
   process_names |-> <<"codex">>,
   ports |-> <<>>,
   configs |-> <<
      [name |-> <<"O","p","e","n","A","I"," ","A","P","I"," ","K","e","y"," ","i","n"," ","c","o","n","f","i","g">>,
       description |-> "API key stored in codex config",
       check |-> [kind |-> "FileContains", path_pattern |-> "**/codex/config.*",
                  pattern |-> <<"s","k","-">>],
       risk_level |-> "Medium",
       remediation |->
         <<"U","s","e"," ","O","P","E","N","A","I","_","A","P","I","_","K","E","Y"," ","e","n","v","i","r","o","n","m","e","n","t"," ","v","a","r","i","a","b","l","e">>]>>,
   config_paths |-> <<<<".","c","o","d","e","x","/">>, <<".","c","o","n","f","i","g","/","c","o","d","e","x","/">>>>]

Rule_continue ==
  [id |-> "continue", name |-> "Continue",
   description |-> "Open-source AI code assistant (VS Code extension)",
   docs_url |-> "https://continue.dev",
   process_names |-> <<"continue">>,
   ports |-> <<
      [port |-> 65432, name |-> <<"C","o","n","t","i","n","u","e"," ","L","o","c","a","l"," ","S","e","r","v","e","r">>,
       description |-> "Continue's local model server",
       risk_if_exposed |-> "Medium",
       safe_bindings |-> <<<<"1","2","7",".","0",".","0",".","1">>, <<"l","o","c","a","l","h","o","s","t">>>>]>>,
   configs |-> <<>>,
   config_paths |-> <<<<".","c","o","n","t","i","n","u","e","/">>>>]

Rule_cursor ==
  [id |-> "cursor", name |-> "Cursor",
   description |-> "AI-first code editor based on VS Code",
   docs_url |-> "https://cursor.sh",
   process_names |-> <<"cursor", "cursor-helper">>,
   ports |-> <<
      [port |-> 9229, name |-> <<"C","u","r","s","o","r"," ","D","e","b","u","g"," ","P","o","r","t">>,
       description |-> "Node.js inspector port - allows remote code execution if exposed",
       risk_if_exposed |-> "Critical",
       safe_bindings |-> <<<<"1","2","7",".","0",".","0",".","1">>>>]>>,
   configs |-> <<
      [name |-> <<"W","o","r","k","s","p","a","c","e"," ","T","r","u","s","t"," ","D","i","s","a","b","l","e","d">>,
       description |-> "Malicious .vscode/tasks.json can execute arbitrary code on project open",
       check |-> [kind |-> "FileMissing", path_pattern |-> "**/settings.json",
                  pattern |-> <<"s","e","c","u","r","i","t","y",".","w","o","r","k","s","p","a","c","e",".","t","r","u","s","t">>],
       risk_level |-> "Medium",
       remediation |->
         <<"E","n","a","b","l","e"," ","W","o","r","k","s","p","a","c","e"," ","T","r","u","s","t"," ","f","e","a","t","u","r","e"," ","i","n"," ","C","u","r","s","o","r"," ","s","e","t","t","i","n","g","s","."," ","A","u","d","i","t"," ",".","v","s","c","o","d","e","/","t","a","s","k","s",".","j","s","o","n"," ","i","n"," ","u","n","t","r","u","s","t","e","d"," ","r","e","p","o","s">>]>>,
   config_paths |-> <<<<".","c","u","r","s","o","r","/">>, <<".","v","s","c","o","d","e","/">>>>]

Rule_windsurf ==
  [id |-> "windsurf", name |-> "Windsurf",
   description |-> "Codeium's AI-powered IDE",
   docs_url |-> "https://codeium.com/windsurf",
   process_names |-> <<"windsurf">>,
   ports |-> <<
      [port |-> 42424, name |-> <<"W","i","n","d","s","u","r","f"," ","L","a","n","g","u","a","g","e"," ","S","e","r","v","e","r">>,
       description |-> "AI language server port",
       risk_if_exposed |-> "Medium",
       safe_bindings |-> <<<<"1","2","7",".","0",".","0",".","1">>, <<"l","o","c","a","l","h","o","s","t">>>>]>>,
   configs |-> <<>>,
   config_paths |-> <<<<".","w","i","n","d","s","u","r","f","/">>>>]

Rule_mcp_servers ==
  [id |-> "mcp-servers", name |-> "MCP Servers",
   description |-> "Model Context Protocol servers - 36.7% vulnerable to SSRF (2026)",
   docs_url |-> "https://modelcontextprotocol.io",
   process_names |-> <<"mcp-server", "mcp">>,
   ports |-> <<
      [port |-> 3000, name |-> <<"M","C","P"," ","S","e","r","v","e","r"," ","D","e","f","a","u","l","t">>,
       description |-> "Common MCP server port - check for auth and CORS settings",
       risk_if_exposed |-> "High",
       safe_bindings |-> <<<<"1","2","7",".","0",".","0",".","1">>>>],
      [port |-> 8080, name |-> <<"M","C","P"," ","S","e","r","v","e","r"," ","H","T","T","P">>,
       description |-> "MCP HTTP server - verify authentication is enabled",
       risk_if_exposed |-> "High",
       safe_bindings |-> <<<<"1","2","7",".","0",".","0",".","1">>>>]>>,
   configs |-> <<
      [name |-> <<"A","P","I"," ","K","e","y","s"," ","i","n"," ","M","C","P"," ","C","o","n","f","i","g">>,
       description |-> "Credentials exposed via environment variables or config",
       check |-> [kind |-> "FileContains", path_pattern |-> "**/mcp.json",
                  pattern |-> <<"s","k","-","|","a","p","i","_","k","e","y","|","a","p","i","K","e","y","|","A","P","I","_","K","E","Y">>],
       risk_level |-> "Critical",
       remediation |->
         <<"U","s","e"," ","s","e","c","r","e","t"," ","m","a","n","a","g","e","m","e","n","t","."," ","N","e","v","e","r"," ","s","t","o","r","e"," ","A","P","I"," ","k","e","y","s"," ","i","n"," ","M","C","P"," ","c","o","n","f","i","g"," ","f","i","l","e","s">>]>>,
   config_paths |-> <<<<".","m","c","p","/">>, <<".","c","o","n","f","i","g","/","m","c","p","/">>>>]

Rule_gemini_cli ==
  [id |-> "gemini-cli", name |-> "Gemini CLI",
   description |-> "Google's Gemini AI coding assistant",
   docs_url |-> "https://cloud.google.com/vertex-ai/docs/generative-ai/gemini",
   process_names |-> <<"gemini">>,
   ports |-> <<>>,
   configs |-> <<
      [name |-> <<"A","P","I"," ","K","e","y","s"," ","i","n"," ","C","o","n","f","i","g">>,
       description |-> "Google API keys stored in config",
       check |-> [kind |-> "FileContains", path_pattern |-> "**/settings.json",
                  pattern |-> <<"A","I","z","a">>],
       risk_level |-> "Medium",
       remediation |->
         <<"U","s","e"," ","G","O","O","G","L","E","_","A","P","I","_","K","E","Y"," ","e","n","v","i","r","o","n","m","e","n","t"," ","v","a","r","i","a","b","l","e"," ","o","r"," ","g","c","l","o","u","d"," ","a","u","t","h">>]>>,
   config_paths |-> <<<<".","g","e","m","i","n","i","/">>, <<".","c","o","n","f","i","g","/","g","e","m","i","n","i","-","c","l","i","/">>>>]

get_ai_tool_rules ==
  <<Rule_clawdbot,
    Rule_opencode,
    Rule_aider,
    Rule_claude_code,
    Rule_codex_cli,
    Rule_continue,
    Rule_cursor,
    Rule_windsurf,
    Rule_mcp_servers,
    Rule_gemini_cli>>

-----------------------------------------------------------------------------
(* scanner.rs: string literals of check_port_binding and                   *)
(* check_exposed_ports                                                     *)

StrLocalhost ==
  <<"l","o","c","a","l","h","o","s","t">>

Str127 ==
  <<"1","2","7",".","0",".","0",".","1">>

StrPort ==
  <<"P","o","r","t"," ">>

StrOpenParen ==
  <<" ","(">>

StrIsExposed ==
  <<")"," ","i","s"," ","e","x","p","o","s","e","d">>

StrIsActive ==
  <<")"," ","i","s"," ","a","c","t","i","v","e">>

StrBind ==
  <<"B","i","n","d"," ">>

StrBindTail ==
  <<" ","t","o"," ","l","o","c","a","l","h","o","s","t"," ","o","n","l","y"," ","(","1","2","7",".","0",".","0",".","1",")"," ","o","r"," ","u","s","e"," ","a"," ","f","i","r","e","w","a","l","l">>

StrVerify ==
  <<"V","e","r","i","f","y"," ">>

StrVerifyTail ==
  <<" ","i","s"," ","o","n","l","y"," ","a","c","c","e","s","s","i","b","l","e"," ","f","r","o","m"," ","t","r","u","s","t","e","d"," ","n","e","t","w","o","r","k","s">>

StrProcess ==
  <<"P","r","o","c","e","s","s",":"," ">>

StrState ==
  <<","," ","S","t","a","t","e",":"," ">>

StrPid ==
  <<","," ","P","I","D",":"," ">>

StrListening ==
  <<"L","i","s","t","e","n","i","n","g"," ","o","n"," ","l","o","c","a","l","h","o","s","t">>

-----------------------------------------------------------------------------
(* scanner.rs: the port correlator                                         *)

\* one entry of the I/O log: what was called and on which port or path
IoConnect(port) == [op |-> "connect", port |-> port, path |-> <<>>]

IoSnapshot == [op |-> "get_ports_in_use", port |-> 0, path |-> <<>>]

IoReadDir(path) == [op |-> "read_dir", port |-> 0, path |-> path]

IoReadFile(path) == [op |-> "read_to_string", port |-> 0, path |-> path]

\* TcpStream::connect_timeout to 127.0.0.1:<port>: succeeds exactly on the
\* ports something accepts connections on; refusal and timeout are both Err
connect_timeout(port) == port \in listening

\* mutant of check_port_binding: a refused connection counts as listening
check_port_binding_refused_too(port) == Some(StrListening)

check_port_binding(port) ==
  IF connect_timeout(port) THEN Some(StrListening) ELSE None

\* the closure ignores its argument `safe`: any() over the declared markers
\* is true iff there is at least one marker and the fixed test succeeds
is_safe(port_rule, p) ==
  \E k \in 1..Len(port_rule.safe_bindings) :
     \/ Contains(to_lowercase(p.process_name), StrLocalhost)
     \/ Contains(p.state, Str127)

ExposedFinding(tool, port_rule, p) ==
  [tool_id     |-> tool.id,
   tool_name   |-> tool.name,
   issue       |-> StrPort \o to_string(port_rule.port) \o StrOpenParen
                     \o port_rule.name \o StrIsExposed,
   description |-> port_rule.description,
   risk_level  |-> port_rule.risk_if_exposed,
   remediation |-> StrBind \o port_rule.name \o StrBindTail,
   details     |-> StrProcess \o p.process_name \o StrState \o p.state
                     \o StrPid \o to_string(p.pid)]

\* mutant of ProbeRisk: the declared level lowered by one step, Low staying
\* Low
ProbeRisk_one_step_down(port_rule) ==
  CASE port_rule.risk_if_exposed = "Critical" -> "High"
    [] port_rule.risk_if_exposed = "High"     -> "Medium"
    [] OTHER                                  -> "Low"

ProbeRisk(port_rule) ==
  IF port_rule.risk_if_exposed = "Critical" THEN "High" ELSE "Medium"

ActiveFinding(tool, port_rule, status) ==
  [tool_id     |-> tool.id,
   tool_name   |-> tool.name,
   issue       |-> StrPort \o to_string(port_rule.port) \o StrOpenParen
                     \o port_rule.name \o StrIsActive,
   description |-> port_rule.description,
   risk_level  |-> ProbeRisk(port_rule),
   remediation |-> StrVerify \o port_rule.name \o StrVerifyTail,
   details     |-> status]

\* the inner loop `for p in ports_info`: one finding per matching entry
\* that is not safe, in the order of the port table
RECURSIVE SnapshotPath(_, _, _, _, _)
SnapshotPath(tool, port_rule, ports_info, j, findings) ==
  IF j > Len(ports_info) THEN findings
  ELSE LET p == ports_info[j]
           emit == p.port = port_rule.port /\ ~is_safe(port_rule, p)
       IN SnapshotPath(tool, port_rule, ports_info, j + 1,
            IF emit THEN Append(findings, ExposedFinding(tool, port_rule, p))
                    ELSE findings)

\* mutant of already_reported: only an earlier probe finding counts
already_reported_by_probe(findings, port_rule) ==
  \E k \in 1..Len(findings) :
     /\ Contains(findings[k].issue, to_string(port_rule.port))
     /\ Contains(findings[k].issue, StrIsActive)

already_reported(findings, port_rule) ==
  \E k \in 1..Len(findings) :
     Contains(findings[k].issue, to_string(port_rule.port))

\* the direct connection check that follows the inner loop
ProbePath(tool, port_rule, findings) ==
  LET probe == check_port_binding(port_rule.port)
  IN IF IsSome(probe) /\ ~already_reported(findings, port_rule)
     THEN Append(findings, ActiveFinding(tool, port_rule, probe[1]))
     ELSE findings

\* mutant of PortRuleLoop: a port for which the snapshot path has pushed a
\* finding is not probed
RECURSIVE PortRuleLoop_probe_unless_found(_, _, _, _)
PortRuleLoop_probe_unless_found(tool, ports_info, i, acc) ==
  IF i > Len(tool.ports) THEN acc
  ELSE LET port_rule == tool.ports[i]
           snap == SnapshotPath(tool, port_rule, ports_info, 1, acc.findings)
       IN PortRuleLoop_probe_unless_found(tool, ports_info, i + 1,
            IF Len(snap) > Len(acc.findings)
            THEN [findings |-> snap, io |-> acc.io]
            ELSE [findings |-> ProbePath(tool, port_rule, snap),
                  io       |-> Append(acc.io, IoConnect(port_rule.port))])

\* the outer loop `for port_rule in &tool.ports`; acc carries the findings
\* vector and the I/O made so far
RECURSIVE PortRuleLoop(_, _, _, _)
PortRuleLoop(tool, ports_info, i, acc) ==
  IF i > Len(tool.ports) THEN acc
  ELSE LET port_rule == tool.ports[i]
           snap == SnapshotPath(tool, port_rule, ports_info, 1, acc.findings)
       IN PortRuleLoop(tool, ports_info, i + 1,
            [findings |-> ProbePath(tool, port_rule, snap),
             io       |-> Append(acc.io, IoConnect(port_rule.port))])

check_exposed_ports(tool, ports_info) ==
  PortRuleLoop(tool, ports_info, 1, [findings |-> <<>>, io |-> <<>>])

-----------------------------------------------------------------------------
(* scanner.rs: string literals of get_home_dir and check_config_files      *)

StrHOME ==
  <<"H","O","M","E">>

StrSlash ==
  <<"/">>

StrFoundIn ==
  <<"F","o","u","n","d"," ","i","n",":"," ">>

StrFileExists ==
  <<"F","i","l","e"," ","e","x","i","s","t","s",":"," ">>

StrMissing ==
  <<"M","i","s","s","i","n","g"," ","'">>

StrMissingIn ==
  <<"'"," ","i","n",":"," ">>

StrEnvVar ==
  <<"E","n","v"," ","v","a","r"," ">>

StrInsecure ==
  <<" ","h","a","s"," ","i","n","s","e","c","u","r","e"," ","v","a","l","u","e">>

-----------------------------------------------------------------------------
(* The environment and the filesystem as std::env and std::fs see them     *)

\* env::var(name).ok()
env_var(name) == IF name \in DOMAIN environ THEN environ[name] ELSE None

\* not(target_os = "windows"): the home directory is $HOME
get_home_dir == env_var(StrHOME)

\* PathBuf::join: an absolute argument replaces the base; a separator is
\* added only after a non-empty base that does not end with one
join(base, p) ==
  IF Len(p) > 0 /\ p[1] = "/" THEN p
  ELSE IF Len(base) > 0 /\ base[Len(base)] # "/"
       THEN base \o StrSlash \o p
       ELSE base \o p

\* a path with its trailing separators removed: the key of its node in fs
RECURSIVE TrimSlash(_)
TrimSlash(path) ==
  IF Len(path) > 1 /\ path[Len(path)] = "/"
  THEN TrimSlash(SubSeq(path, 1, Len(path) - 1))
  ELSE path

\* mutant of exists: a trailing separator is ignored, so that a regular file
\* passes for the directory the path asks for
exists_any_kind(path) == TrimSlash(path) \in DOMAIN fs

\* Path::exists: stat succeeds; a path written with a trailing separator
\* resolves only to a directory
exists(path) ==
  LET key == TrimSlash(path)
  IN /\ key \in DOMAIN fs
     /\ (key # path => fs[key].kind = "dir")

\* Path::is_dir
is_dir(path) == exists(path) /\ fs[TrimSlash(path)].kind = "dir"

\* fs::read_dir(path) followed by flatten(): the entries in the order the OS
\* lists them; a directory that cannot be listed gives Err
read_dir(path) ==
  IF is_dir(path) /\ fs[TrimSlash(path)].readable
  THEN Some(fs[TrimSlash(path)].entries)
  ELSE None

\* mutant of read_entry: a failed read counts as an empty content
read_entry_or_default(entry) ==
  IF entry.kind = "file" /\ entry.readable THEN Some(entry.content)
  ELSE Some(<<>>)

\* fs::read_to_string of a direct child of a listed directory: Err for a
\* subdirectory, a file without read permission or content that is not UTF-8
read_entry(entry) ==
  IF entry.kind = "file" /\ entry.readable THEN Some(entry.content) ELSE None

\* fs::read_to_string(path) of a config path that is not a directory
read_to_string(path) ==
  IF exists(path) /\ fs[TrimSlash(path)].kind = "file"
       /\ fs[TrimSlash(path)].readable
  THEN Some(fs[TrimSlash(path)].content)
  ELSE None

-----------------------------------------------------------------------------
(* scanner.rs: the config auditor                                          *)

ConfigFinding(tool, config_rule, details) ==
  [tool_id     |-> tool.id,
   tool_name   |-> tool.name,
   issue       |-> config_rule.name,
   description |-> config_rule.description,
   risk_level  |-> config_rule.risk_level,
   remediation |-> config_rule.remediation,
   details     |-> details]

\* mutant of AnyAlternative: only the first alternative is tested
OnlyFirstAlternative(content, pattern) ==
  Contains(content, split(pattern, "|")[1])

\* mutant of AnyAlternative: empty alternatives are skipped
AnyNonEmptyAlternative(content, pattern) ==
  LET patterns == split(pattern, "|")
  IN \E k \in 1..Len(patterns) :
        patterns[k] # <<>> /\ Contains(content, patterns[k])

\* `for p in patterns { if content.contains(p) { push; break } }`
AnyAlternative(content, pattern) ==
  LET patterns == split(pattern, "|")
  IN \E k \in 1..Len(patterns) : Contains(content, patterns[k])

\* mutant of ContainsEntries: path_pattern selects the entries; the file
\* names of the entries match no glob but the one that matches every name
ContainsEntries_by_path_pattern(tool, config_rule, full_path, entries, e, acc) ==
  LET RECURSIVE Loop(_, _)
      Loop(x, a) ==
        IF x > Len(entries) THEN a
        ELSE LET path == join(full_path, entries[x].name)
                 content == read_entry(entries[x])
                 hit == /\ config_rule.check.path_pattern = "**/*"
                        /\ IsSome(content)
                        /\ AnyAlternative(content[1], config_rule.check.pattern)
             IN Loop(x + 1,
                  [findings |-> IF hit
                                THEN Append(a.findings,
                                       ConfigFinding(tool, config_rule,
                                                     StrFoundIn \o path))
                                ELSE a.findings,
                   io       |-> Append(a.io, IoReadFile(path))])
  IN Loop(e, acc)

\* FileContains, directory branch: the loop over the directory's entries
RECURSIVE ContainsEntries(_, _, _, _, _, _)
ContainsEntries(tool, config_rule, full_path, entries, e, acc) ==
  IF e > Len(entries) THEN acc
  ELSE LET entry == entries[e]
           path == join(full_path, entry.name)
           content == read_entry(entry)
           hit == IsSome(content)
                    /\ AnyAlternative(content[1], config_rule.check.pattern)
       IN ContainsEntries(tool, config_rule, full_path, entries, e + 1,
            [findings |-> IF hit
                          THEN Append(acc.findings,
                                 ConfigFinding(tool, config_rule,
                                               StrFoundIn \o path))
                          ELSE acc.findings,
             io       |-> Append(acc.io, IoReadFile(path))])

\* FileContains: one config path
ContainsPath(tool, config_rule, full_path, acc) ==
  IF ~exists(full_path) THEN acc
  ELSE IF is_dir(full_path)
  THEN LET listed == read_dir(full_path)
           acc1 == [acc EXCEPT !.io = Append(@, IoReadDir(full_path))]
       IN IF IsSome(listed)
          THEN ContainsEntries(tool, config_rule, full_path, listed[1], 1, acc1)
          ELSE acc1
  ELSE LET content == read_to_string(full_path)
           hit == IsSome(content)
                    /\ AnyAlternative(content[1], config_rule.check.pattern)
       IN [findings |-> IF hit
                        THEN Append(acc.findings,
                               ConfigFinding(tool, config_rule,
                                             StrFoundIn \o full_path))
                        ELSE acc.findings,
           io       |-> Append(acc.io, IoReadFile(full_path))]

\* mutant of ExistsPath: the path counts only if it can be opened, a file
\* for reading or a directory for listing
ExistsPath_if_readable(tool, config_rule, full_path, acc) ==
  IF exists(full_path) /\ fs[TrimSlash(full_path)].readable
  THEN [acc EXCEPT !.findings =
          Append(@, ConfigFinding(tool, config_rule,
                                  StrFileExists \o full_path))]
  ELSE acc

\* FileExists: one config path
ExistsPath(tool, config_rule, full_path, acc) ==
  IF exists(full_path)
  THEN [acc EXCEPT !.findings =
          Append(@, ConfigFinding(tool, config_rule,
                                  StrFileExists \o full_path))]
  ELSE acc

\* FileMissing: the loop over the directory's entries
RECURSIVE MissingEntries(_, _, _, _, _, _)
MissingEntries(tool, config_rule, full_path, entries, e, acc) ==
  IF e > Len(entries) THEN acc
  ELSE LET entry == entries[e]
           path == join(full_path, entry.name)
           content == read_entry(entry)
           hit == IsSome(content)
                    /\ ~Contains(content[1], config_rule.check.pattern)
       IN MissingEntries(tool, config_rule, full_path, entries, e + 1,
            [findings |-> IF hit
                          THEN Append(acc.findings,
                                 ConfigFinding(tool, config_rule,
                                   StrMissing \o config_rule.check.pattern
                                     \o StrMissingIn \o path))
                          ELSE acc.findings,
             io       |-> Append(acc.io, IoReadFile(path))])

\* mutant of MissingPath: a config path that is a regular file is checked
\* for the pattern like a file of a directory
MissingPathFilesToo(tool, config_rule, full_path, acc) ==
  IF exists(full_path) /\ is_dir(full_path)
  THEN LET listed == read_dir(full_path)
           acc1 == [acc EXCEPT !.io = Append(@, IoReadDir(full_path))]
       IN IF IsSome(listed)
          THEN MissingEntries(tool, config_rule, full_path, listed[1], 1, acc1)
          ELSE acc1
  ELSE LET content == read_to_string(full_path)
       IN IF IsSome(content)
               /\ ~Contains(content[1], config_rule.check.pattern)
          THEN [acc EXCEPT !.findings =
                  Append(@, ConfigFinding(tool, config_rule,
                           StrMissing \o config_rule.check.pattern
                             \o StrMissingIn \o full_path))]
          ELSE acc

\* FileMissing: one config path
MissingPath(tool, config_rule, full_path, acc) ==
  IF exists(full_path) /\ is_dir(full_path)
  THEN LET listed == read_dir(full_path)
           acc1 == [acc EXCEPT !.io = Append(@, IoReadDir(full_path))]
       IN IF IsSome(listed)
          THEN MissingEntries(tool, config_rule, full_path, listed[1], 1, acc1)
          ELSE acc1
  ELSE acc

\* `for config_path in &tool.config_paths` of the three file check kinds
RECURSIVE ConfigPathLoop(_, _, _, _, _)
ConfigPathLoop(tool, home, config_rule, k, acc) ==
  IF k > Len(tool.config_paths) THEN acc
  ELSE LET full_path == join(home, tool.config_paths[k])
           kind == config_rule.check.kind
       IN ConfigPathLoop(tool, home, config_rule, k + 1,
            IF kind = "FileContains"
            THEN ContainsPath(tool, config_rule, full_path, acc)
            ELSE IF kind = "FileExists"
            THEN ExistsPath(tool, config_rule, full_path, acc)
            ELSE MissingPath(tool, config_rule, full_path, acc))

\* mutant of EnvVarCheck: a rule without an insecure value reports the
\* variable whenever it is set
EnvVarCheck_set_is_insecure(tool, config_rule, acc) ==
  LET value == env_var(config_rule.check.name)
      insecure == config_rule.check.insecure_value
  IN IF IsSome(value) /\ (IsSome(insecure) => value[1] = insecure[1])
     THEN [acc EXCEPT !.findings =
             Append(@, ConfigFinding(tool, config_rule,
                      StrEnvVar \o config_rule.check.name \o StrInsecure))]
     ELSE acc

\* EnvVar { name, insecure_value }
EnvVarCheck(tool, config_rule, acc) ==
  LET value == env_var(config_rule.check.name)
      insecure == config_rule.check.insecure_value
  IN IF IsSome(value) /\ IsSome(insecure) /\ value[1] = insecure[1]
     THEN [acc EXCEPT !.findings =
             Append(@, ConfigFinding(tool, config_rule,
                      StrEnvVar \o config_rule.check.name \o StrInsecure))]
     ELSE acc

\* `for config_rule in &tool.configs { match &config_rule.check { ... } }`
RECURSIVE ConfigRuleLoop(_, _, _, _)
ConfigRuleLoop(tool, home, i, acc) ==
  IF i > Len(tool.configs) THEN acc
  ELSE LET config_rule == tool.configs[i]
       IN ConfigRuleLoop(tool, home, i + 1,
            IF config_rule.check.kind = "EnvVar"
            THEN EnvVarCheck(tool, config_rule, acc)
            ELSE ConfigPathLoop(tool, home, config_rule, 1, acc))

\* mutant of check_config_files: without a home directory the config paths
\* are taken relative to the working directory
check_config_files_without_home(tool) ==
  LET home == get_home_dir
      empty == [findings |-> <<>>, io |-> <<>>]
  IN IF IsSome(home) THEN ConfigRuleLoop(tool, home[1], 1, empty)
     ELSE ConfigRuleLoop(tool, <<>>, 1, empty)

check_config_files(tool) ==
  LET home == get_home_dir
      empty == [findings |-> <<>>, io |-> <<>>]
  IN IF IsSome(home) THEN ConfigRuleLoop(tool, home[1], 1, empty) ELSE empty

-----------------------------------------------------------------------------
(* definitions.rs: the lazily initialized registry                         *)

\* mutant of get_or_init: a later call adds the catalog to the stored one
get_or_init_again(cell) ==
  IF IsSome(cell) THEN Some(cell[1] \o get_ai_tool_rules)
  ELSE Some(get_ai_tool_rules)

\* OnceLock::get_or_init(get_ai_tool_rules): the cell after the call
get_or_init(cell) == IF IsSome(cell) THEN cell ELSE Some(get_ai_tool_rules)

\* get_rules() -> ai_tool_security_rules(): the catalog the call returns
get_rules == get_or_init(RULES)[1]

\* how many threads call get_rules()
MaxThreads == 3

Threads == 1..MaxThreads

\* a thread that runs no scan command: the command and its argument, where
\* the command is, and its local variables ports_info, the findings vector
\* and the value it returns
NoScan ==
  [cmd |-> "none", arg |-> "", at |-> "none", ports_info |-> <<>>,
   findings |-> <<>>, ret |-> None]

\* no thread is inside get_rules() or a scan command
NoThreads ==
  [t \in Threads |-> [pc |-> "idle", ret |-> None, calls |-> 0,
                      slow |-> FALSE, scan |-> NoScan]]

-----------------------------------------------------------------------------
(* scanner.rs: the aggregator and the two scan entry points                *)

\* crate::services::get_ports_in_use(): a point-in-time copy of the table
get_ports_in_use == ports_table

risk_order(r) ==
  CASE r = "Critical" -> 0
    [] r = "High"     -> 1
    [] r = "Medium"   -> 2
    [] r = "Low"      -> 3

\* Ordering of the sort_by comparator: is a strictly before b
Less(a, b) == risk_order(a.risk_level) < risk_order(b.risk_level)

\* mutant of InsertStable: an element goes before the elements that compare
\* equal to it, as an unstable sort may place it
InsertUnstable(sorted, f) ==
  LET before == {k \in 1..Len(sorted) : Less(sorted[k], f)}
      pos == IF before = {} THEN 0
             ELSE CHOOSE k \in before : \A m \in before : m <= k
  IN SubSeq(sorted, 1, pos) \o <<f>> \o SubSeq(sorted, pos + 1, Len(sorted))

\* slice::sort_by is a stable sort: an element goes after every element
\* already placed that does not compare greater than it
InsertStable(sorted, f) ==
  LET after == {k \in 1..Len(sorted) : ~Less(f, sorted[k])}
      pos == IF after = {} THEN 0
             ELSE CHOOSE k \in after : \A m \in after : m <= k
  IN SubSeq(sorted, 1, pos) \o <<f>> \o SubSeq(sorted, pos + 1, Len(sorted))

\* mutant of sort_by: the vector is returned as collected
sort_by_skipped(v) == v

RECURSIVE SortFrom(_, _, _)
SortFrom(v, i, sorted) ==
  IF i > Len(v) THEN sorted
  ELSE SortFrom(v, i + 1, InsertStable(sorted, v[i]))

sort_by(v) == SortFrom(v, 1, <<>>)

\* `for tool in rules.iter()`: port findings, then config findings, per tool
RECURSIVE ToolLoop(_, _, _, _)
ToolLoop(rules, ports_info, t, acc) ==
  IF t > Len(rules) THEN acc
  ELSE LET port_findings == check_exposed_ports(rules[t], ports_info)
           config_findings == check_config_files(rules[t])
       IN ToolLoop(rules, ports_info, t + 1,
            [findings |-> acc.findings \o port_findings.findings
                            \o config_findings.findings,
             io       |-> acc.io \o port_findings.io \o config_findings.io])

\* the findings of every tool in encounter order, before the sort
all_findings ==
  ToolLoop(get_rules, get_ports_in_use, 1,
           [findings |-> <<>>, io |-> <<IoSnapshot>>])

get_security_findings ==
  [findings |-> sort_by(all_findings.findings), io |-> all_findings.io]

\* mutant of count: equal findings are counted once
count_distinct(findings, level) ==
  Cardinality({findings[k] : k \in {m \in 1..Len(findings) :
                                      findings[m].risk_level = level}})

count(findings, level) ==
  Cardinality({k \in 1..Len(findings) : findings[k].risk_level = level})

SecuritySummary(findings) ==
  [total_findings |-> Len(findings),
   critical       |-> count(findings, "Critical"),
   high           |-> count(findings, "High"),
   medium         |-> count(findings, "Medium"),
   low            |-> count(findings, "Low")]

\* mutant of scan_ai_tool_security: only tools with a finding are listed
scan_ai_tool_security_found_only ==
  LET found == get_security_findings
      rules == get_rules
      hit(tool) == \E k \in 1..Len(found.findings) :
                      found.findings[k].tool_id = tool.id
  IN [ret |-> Some([tools_scanned |->
                      LET kept == SelectSeq(rules, hit)
                      IN [t \in 1..Len(kept) |-> kept[t].name],
                    findings      |-> found.findings,
                    summary       |-> SecuritySummary(found.findings)]),
      io  |-> found.io]

\* mutant of scan_ai_tool_security: a scan without a home directory fails
scan_ai_tool_security_needing_home ==
  LET found == get_security_findings
      rules == get_rules
  IN IF ~IsSome(get_home_dir) THEN [ret |-> None, io |-> found.io]
     ELSE [ret |-> Some([tools_scanned |->
                           [t \in 1..Len(rules) |-> rules[t].name],
                         findings      |-> found.findings,
                         summary       |-> SecuritySummary(found.findings)]),
           io  |-> found.io]

\* the result without scan_time, the one field read from the clock
scan_ai_tool_security ==
  LET found == get_security_findings
      rules == get_rules
  IN [ret |-> Some([tools_scanned |-> [t \in 1..Len(rules) |-> rules[t].name],
                    findings      |-> found.findings,
                    summary       |-> SecuritySummary(found.findings)]),
      io  |-> found.io]

\* mutant of find: an unknown id falls back to the first rule
find_or_first(rules, tool_id) ==
  LET hits == {t \in 1..Len(rules) : rules[t].id = tool_id}
  IN IF hits = {} THEN Some(rules[1])
     ELSE Some(rules[CHOOSE t \in hits : \A u \in hits : t <= u])

\* rules.iter().find(|t| t.id == tool_id): the first rule with that id
find(rules, tool_id) ==
  LET hits == {t \in 1..Len(rules) : rules[t].id = tool_id}
  IN IF hits = {} THEN None
     ELSE Some(rules[CHOOSE t \in hits : \A u \in hits : t <= u])

scan_specific_tool(tool_id) ==
  LET tool == find(get_rules, tool_id)
  IN IF ~IsSome(tool) THEN [ret |-> None, io |-> <<>>]
     ELSE LET ports_info == get_ports_in_use
              port_findings == check_exposed_ports(tool[1], ports_info)
              config_findings == check_config_files(tool[1])
              findings == port_findings.findings \o config_findings.findings
          IN [ret |-> Some([tools_scanned |-> <<tool[1].name>>,
                            findings      |-> findings,
                            summary       |-> SecuritySummary(findings)]),
              io  |-> <<IoSnapshot>> \o port_findings.io
                        \o config_findings.io]

-----------------------------------------------------------------------------
(* The workstation the scanner inspects: bounded sets of what can be there *)

\* how many things (port-table entries, listening ports, files) the
\* workstation holds at most
MaxEnv == 3

HomeDir ==
  <<"/","h">>

PathClawdbot ==
  <<"/","h","/",".","c","l","a","w","d","b","o","t">>

PathAiderConf ==
  <<"/","h","/",".","a","i","d","e","r",".","c","o","n","f",".","y","m","l">>

ContentKey ==
  <<"a","p","i","_","k","e","y",":"," ","s","k","-","t","e","s","t","1","2","3">>

ContentHardened ==
  <<"t","r","u","s","t","e","d","P","r","o","x","i","e","s",":"," ","[","]">>

ProcNode ==
  <<"n","o","d","e">>

StateListen ==
  <<"L","I","S","T","E","N">>

StateLoopback ==
  <<"1","2","7",".","0",".","0",".","1",":","L","I","S","T","E","N">>

EntryNames ==
  <<<<"a",".","j","s","o","n">>, <<"b",".","j","s","o","n">>, <<"c",".","j","s","o","n">>, <<"d",".","j","s","o","n">>>>

PortInfo(port, process_name, pid, state) ==
  [port |-> port, process_name |-> process_name, pid |-> pid, state |-> state]

\* port-table entries of the scan commands' workstation
TableEntries ==
  {PortInfo(18790, ProcNode, 4242, StateListen),
   PortInfo(4096, ProcNode, 4243, StateListen),
   PortInfo(4096, ProcNode, 4243, StateLoopback)}

ListenPorts == {18789, 9222}

DirPaths == {PathClawdbot}

FilePaths == {PathAiderConf}

Contents == {ContentKey, ContentHardened}

FileNode(readable, content) ==
  [kind |-> "file", readable |-> readable, content |-> content,
   entries |-> <<>>]

DirNode(entries) ==
  [kind |-> "dir", readable |-> TRUE, content |-> <<>>, entries |-> entries]

DirEntry(name, readable, content) ==
  [name |-> name, kind |-> "file", readable |-> readable, content |-> content]

\* a file that cannot be read has no content the scanner can see
FileStates == {<<TRUE, c>> : c \in Contents} \cup {<<FALSE, <<>> >>}

RECURSIVE SumLen(_, _)
SumLen(f, S) ==
  IF S = {} THEN 0
  ELSE LET x == CHOOSE y \in S : TRUE
       IN Len(f[x].entries) + SumLen(f, S \ {x})

\* the things on the workstation that a scan can report on
EnvSize ==
  Len(ports_table) + Cardinality(listening) + SumLen(fs, DOMAIN fs)
    + Cardinality({path \in DOMAIN fs : fs[path].kind = "file"})

NoResult == [cmd |-> "none", arg |-> "", ret |-> None, io |-> <<>>]

\* remove the mapping of key k from function f
Without(f, k) == [x \in (DOMAIN f) \ {k} |-> f[x]]

\* add or replace the mapping of key k in function f
With(f, k, v) == [x \in (DOMAIN f) \cup {k} |-> IF x = k THEN v ELSE f[x]]

\* sequence s without its i-th element
RemoveAt(s, i) == SubSeq(s, 1, i - 1) \o SubSeq(s, i + 1, Len(s))

-----------------------------------------------------------------------------
(* Changes of the workstation between commands                             *)

\* history: a remembered scan notes that the workstation changed after it
Touched(m) ==
  IF IsSome(m) THEN Some([m[1] EXCEPT !.changed = TRUE]) ELSE m

Bind(e) ==
  /\ EnvSize < MaxEnv
  /\ ports_table' = Append(ports_table, e)
  /\ last' = NoResult
  /\ memo' = Touched(memo)
  /\ UNCHANGED <<listening, environ, fs, RULES, threads>>

Release(i) ==
  /\ i \in 1..Len(ports_table)
  /\ ports_table' = RemoveAt(ports_table, i)
  /\ last' = NoResult
  /\ memo' = Touched(memo)
  /\ UNCHANGED <<listening, environ, fs, RULES, threads>>

Listen(port) ==
  /\ EnvSize < MaxEnv
  /\ port \notin listening
  /\ listening' = listening \cup {port}
  /\ last' = NoResult
  /\ memo' = Touched(memo)
  /\ UNCHANGED <<ports_table, environ, fs, RULES, threads>>

StopListening(port) ==
  /\ port \in listening
  /\ listening' = listening \ {port}
  /\ last' = NoResult
  /\ memo' = Touched(memo)
  /\ UNCHANGED <<ports_table, environ, fs, RULES, threads>>

UnsetHome ==
  /\ StrHOME \in DOMAIN environ
  /\ environ' = Without(environ, StrHOME)
  /\ last' = NoResult
  /\ memo' = Touched(memo)
  /\ UNCHANGED <<ports_table, listening, fs, RULES, threads>>

SetHome ==
  /\ StrHOME \notin DOMAIN environ
  /\ environ' = With(environ, StrHOME, Some(HomeDir))
  /\ last' = NoResult
  /\ memo' = Touched(memo)
  /\ UNCHANGED <<ports_table, listening, fs, RULES, threads>>

MakeDir(path) ==
  /\ path \notin DOMAIN fs
  /\ fs' = With(fs, path, DirNode(<<>>))
  /\ last' = NoResult
  /\ memo' = Touched(memo)
  /\ UNCHANGED <<ports_table, listening, environ, RULES, threads>>

\* a new file in a directory: listed after the files already there
CreateEntry(path, st) ==
  /\ EnvSize < MaxEnv
  /\ path \in DOMAIN fs
  /\ fs[path].kind = "dir"
  /\ Len(fs[path].entries) < Len(EntryNames)
  /\ fs' = With(fs, path,
             DirNode(Append(fs[path].entries,
                            DirEntry(EntryNames[Len(fs[path].entries) + 1],
                                     st[1], st[2]))))
  /\ last' = NoResult
  /\ memo' = Touched(memo)
  /\ UNCHANGED <<ports_table, listening, environ, RULES, threads>>

WriteFile(path, st) ==
  /\ EnvSize < MaxEnv
  /\ path \notin DOMAIN fs
  /\ fs' = With(fs, path, FileNode(st[1], st[2]))
  /\ last' = NoResult
  /\ memo' = Touched(memo)
  /\ UNCHANGED <<ports_table, listening, environ, RULES, threads>>

Remove(path) ==
  /\ path \in DOMAIN fs
  /\ fs' = Without(fs, path)
  /\ last' = NoResult
  /\ memo' = Touched(memo)
  /\ UNCHANGED <<ports_table, listening, environ, RULES, threads>>

EnvChange ==
  \/ \E e \in TableEntries : Bind(e)
  \/ \E i \in 1..MaxEnv + 1 : Release(i)
  \/ \E port \in ListenPorts : Listen(port) \/ StopListening(port)
  \/ UnsetHome
  \/ SetHome
  \/ \E path \in DirPaths : MakeDir(path)
  \/ \E path \in DirPaths, st \in FileStates : CreateEntry(path, st)
  \/ \E path \in FilePaths, st \in FileStates : WriteFile(path, st)
  \/ \E path \in DirPaths \cup FilePaths : Remove(path)

-----------------------------------------------------------------------------
(* commands/security.rs: the commands                                      *)

\* tool ids a caller passes: ids of the catalog and ids that are not
ToolIdArgs == {"clawdbot", "aider", "clawd"}

\* mutant of scan_security_cmd: the scan leaves a report file under home
scan_security_cmd_leaving_report ==
  LET r == scan_ai_tool_security
  IN /\ last' = [cmd |-> "scan_security_cmd", arg |-> "",
                 ret |-> r.ret, io |-> r.io]
     /\ RULES' = get_or_init(RULES)
     /\ fs' = With(fs, HomeDir \o <<"/","s","c","a","n",".","l","o","g">>,
                   FileNode(TRUE, <<>>))
     /\ UNCHANGED <<ports_table, listening, environ, memo, threads>>

scan_security_cmd ==
  LET r == scan_ai_tool_security
  IN /\ last' = [cmd |-> "scan_security_cmd", arg |-> "",
                 ret |-> r.ret, io |-> r.io]
     /\ RULES' = get_or_init(RULES)
     /\ UNCHANGED <<ports_table, listening, environ, fs, memo, threads>>

scan_tool_security_cmd(tool_id) ==
  LET r == scan_specific_tool(tool_id)
  IN /\ last' = [cmd |-> "scan_tool_security_cmd", arg |-> tool_id,
                 ret |-> r.ret, io |-> r.io]
     /\ RULES' = get_or_init(RULES)
     /\ UNCHANGED <<ports_table, listening, environ, fs, memo, threads>>

Init ==
  /\ ports_table = <<>>
  /\ listening = {}
  /\ environ = [n \in {StrHOME} |-> Some(HomeDir)]
  /\ fs = [x \in {} |-> DirNode(<<>>)]
  /\ RULES = None
  /\ last = NoResult
  /\ memo = None
  /\ threads = NoThreads

Next ==
  \/ EnvChange
  \/ scan_security_cmd
  \/ \E tool_id \in ToolIdArgs : scan_tool_security_cmd(tool_id)

Spec == Init /\ [][Next]_vars

-----------------------------------------------------------------------------
(* Properties of the scan commands                                         *)

IsFullScan == last.cmd = "scan_security_cmd"

IsToolScan == last.cmd = "scan_tool_security_cmd"

\* no finding is followed by a more severe one
SeverityOrdered(findings) ==
  \A i, j \in 1..Len(findings) :
     i < j => risk_order(findings[i].risk_level)
                <= risk_order(findings[j].risk_level)

OfLevel(findings, level) ==
  LET Test(f) == f.risk_level = level
  IN SelectSeq(findings, Test)

OfToolAndLevel(findings, tool_id, level) ==
  LET Test(f) == f.tool_id = tool_id /\ f.risk_level = level
  IN SelectSeq(findings, Test)

\* what the two checks of one tool produce, in the order they produce it
Encounter(tool) ==
  check_exposed_ports(tool, ports_table).findings
    \o check_config_files(tool).findings

RegistryIndex(tool_id) ==
  CHOOSE t \in 1..Len(get_ai_tool_rules) : get_ai_tool_rules[t].id = tool_id

\* C1: in the result of a full scan every finding of a more severe level
\* (Critical, High, Medium, Low) stands before every finding of a less
\* severe level, whatever the port table, the probes and the files are.
C1_FullScanSeverityOrder ==
  IsFullScan => SeverityOrdered(last.ret[1].findings)

\* a full scan whose tools produced a less severe finding before a more
\* severe one
C1_Witness ==
  /\ IsFullScan
  /\ ~SeverityOrdered(all_findings.findings)
  /\ Len(last.ret[1].findings) >= 2

\* C2: in the result of a single-tool scan with a known id the findings
\* are in severity order.
C2_ToolScanSeverityOrder ==
  (IsToolScan /\ IsSome(last.ret)) => SeverityOrdered(last.ret[1].findings)

\* C3: in every scan result total_findings is the length of the findings
\* list, each of critical/high/medium/low is the number of findings of the
\* list with that level, and the four counts add up to total_findings.
C3_SummaryIsTally ==
  ((IsFullScan \/ IsToolScan) /\ IsSome(last.ret)) =>
    LET r == last.ret[1]
    IN /\ r.summary.total_findings = Len(r.findings)
       /\ r.summary.critical = Len(OfLevel(r.findings, "Critical"))
       /\ r.summary.high = Len(OfLevel(r.findings, "High"))
       /\ r.summary.medium = Len(OfLevel(r.findings, "Medium"))
       /\ r.summary.low = Len(OfLevel(r.findings, "Low"))
       /\ r.summary.critical + r.summary.high + r.summary.medium
            + r.summary.low = r.summary.total_findings

\* a result that holds the same finding twice and findings of two levels
C3_Witness ==
  /\ IsFullScan \/ IsToolScan
  /\ IsSome(last.ret)
  /\ \E i, j \in 1..Len(last.ret[1].findings) :
        i < j /\ last.ret[1].findings[i] = last.ret[1].findings[j]
  /\ \E i, j \in 1..Len(last.ret[1].findings) :
        last.ret[1].findings[i].risk_level
          # last.ret[1].findings[j].risk_level

\* C4: in a full-scan result two findings of the same level keep their
\* encounter order: the finding of the tool earlier in the registry comes
\* first, and the findings of one tool at one level are in the order the
\* tool's checks produced them (port rules, then config rules).
C4_TiesKeepEncounterOrder ==
  IsFullScan =>
    LET f == last.ret[1].findings
    IN /\ \A i, j \in 1..Len(f) :
            (i < j /\ f[i].risk_level = f[j].risk_level)
              => RegistryIndex(f[i].tool_id) <= RegistryIndex(f[j].tool_id)
       /\ \A t \in 1..Len(get_ai_tool_rules), level \in RiskLevel :
            OfToolAndLevel(f, get_ai_tool_rules[t].id, level)
              = OfLevel(Encounter(get_ai_tool_rules[t]), level)

\* a full scan that the sort reordered and that holds two distinct findings
\* of one level from one tool and two findings of one level from two tools
C4_Witness ==
  /\ IsFullScan
  /\ ~SeverityOrdered(all_findings.findings)
  /\ LET f == last.ret[1].findings
     IN /\ \E i, j \in 1..Len(f) :
             /\ i < j
             /\ f[i] # f[j]
             /\ f[i].risk_level = f[j].risk_level
             /\ f[i].tool_id = f[j].tool_id
        /\ \E i, j \in 1..Len(f) :
             /\ f[i].risk_level = f[j].risk_level
             /\ f[i].tool_id # f[j].tool_id

\* C6: scan_specific_tool(id) returns None exactly when no rule of the
\* registry has that id, and then it took no port snapshot, made no probe
\* and read no file.
C6_AbsentIffUnknownId ==
  IsToolScan =>
    /\ IsSome(last.ret)
         <=> \E t \in 1..Len(get_ai_tool_rules) :
                get_ai_tool_rules[t].id = last.arg
    /\ ~IsSome(last.ret) => last.io = <<>>

\* a scan of an unknown id on a workstation where a scan has things to find
C6_Witness ==
  /\ IsToolScan
  /\ last.ret = None
  /\ last.arg \notin {get_ai_tool_rules[t].id : t \in 1..Len(get_ai_tool_rules)}
  /\ all_findings.findings # <<>>

\* C7: tools_scanned of a full scan is the display name of every registry
\* tool in registry order, tools without findings included; tools_scanned
\* of a single-tool scan is exactly the name of the requested tool.
C7_ToolsScanned ==
  /\ IsFullScan =>
       last.ret[1].tools_scanned
         = [t \in 1..Len(get_ai_tool_rules) |-> get_ai_tool_rules[t].name]
  /\ (IsToolScan /\ IsSome(last.ret)) =>
       last.ret[1].tools_scanned
         = <<get_ai_tool_rules[RegistryIndex(last.arg)].name>>

\* a full scan in which one tool has findings and another has none
C7_Witness ==
  /\ IsFullScan
  /\ \E t, u \in 1..Len(get_ai_tool_rules) :
        /\ Encounter(get_ai_tool_rules[t]) # <<>>
        /\ Encounter(get_ai_tool_rules[u]) = <<>>

-----------------------------------------------------------------------------
(* check_exposed_ports as a function of its arguments and of the probes:   *)
(* bounded tools, port tables and sets of listening ports                  *)

\* entries of a port table passed to check_exposed_ports
MaxTable == 2

\* ports that accept a connection at the same time
MaxListen == 2

\* a tool with a port whose decimal number is part of another port's, a
\* port without safe bindings and ports of the two lower risk levels
Rule_devserver ==
  [id |-> "devserver", name |-> "Dev Server",
   description |-> "Local development server",
   docs_url |-> "",
   process_names |-> <<"devserver">>,
   ports |-> <<
      [port |-> 8080, name |-> <<"D","e","v"," ","H","T","T","P">>,
       description |-> "Development HTTP server",
       risk_if_exposed |-> "High",
       safe_bindings |-> <<<<"1","2","7",".","0",".","0",".","1">>>>],
      [port |-> 80, name |-> <<"D","e","v"," ","R","e","d","i","r","e","c","t">>,
       description |-> "Plain HTTP redirect",
       risk_if_exposed |-> "Low",
       safe_bindings |-> <<>>],
      [port |-> 8501, name |-> <<"D","e","v"," ","M","e","t","r","i","c","s">>,
       description |-> "Metrics endpoint",
       risk_if_exposed |-> "Medium",
       safe_bindings |-> <<<<"l","o","c","a","l","h","o","s","t">>>>]>>,
   configs |-> <<>>,
   config_paths |-> <<>>]

PortTools == <<Rule_clawdbot, Rule_opencode, Rule_devserver>>

ProcLocalhost ==
  <<"L","o","c","a","l","h","o","s","t","-","P","r","o","x","y">>

StateV6Loopback ==
  <<"[",":",":","1","]",":","L","I","S","T","E","N">>

\* what the port table can say about a bound port: nothing about the
\* address, an IPv4 loopback address in the state, a process named after
\* localhost, an IPv6 loopback address in the state
BindingKinds ==
  {<<ProcNode, StateListen>>, <<ProcNode, StateLoopback>>,
   <<ProcLocalhost, StateListen>>, <<ProcNode, StateV6Loopback>>}

PortEntries ==
  {PortInfo(port, b[1], 4242, b[2]) : port \in {18789, 8080}, b \in BindingKinds}
    \cup {PortInfo(80, ProcNode, 4243, StateListen)}

ProbePorts == {18789, 18790, 8080, 80}

PortTables == UNION {[1..n -> PortEntries] : n \in 0..MaxTable}

ListenSets == {L \in SUBSET ProbePorts : Cardinality(L) <= MaxListen}

InitPorts ==
  /\ ports_table \in PortTables
  /\ listening \in ListenSets
  /\ environ = [n \in {StrHOME} |-> Some(HomeDir)]
  /\ fs = [x \in {} |-> DirNode(<<>>)]
  /\ RULES = None
  /\ last = NoResult
  /\ memo = None
  /\ threads = NoThreads

\* a call check_exposed_ports(tool, ports_info) with the current port table
call_check_exposed_ports(t) ==
  LET r == check_exposed_ports(PortTools[t], ports_table)
  IN /\ last' = [cmd |-> "check_exposed_ports", arg |-> PortTools[t].id,
                 ret |-> r.findings, io |-> r.io]
     /\ UNCHANGED <<ports_table, listening, environ, fs, RULES, memo, threads>>

NextPorts == \E t \in 1..Len(PortTools) : call_check_exposed_ports(t)

SpecPorts == InitPorts /\ [][NextPorts]_vars

-----------------------------------------------------------------------------
(* Properties of check_exposed_ports                                       *)

IsPortCheck == last.cmd = "check_exposed_ports"

\* the tool the latest check_exposed_ports call was given
CheckedTool ==
  PortTools[CHOOSE t \in 1..Len(PortTools) : PortTools[t].id = last.arg]

Has(findings, f) == \E k \in 1..Len(findings) : findings[k] = f

\* one of the rule's declared safe markers occurs in the entry's process
\* name or state
BoundToDeclaredMarker(port_rule, p) ==
  \E k \in 1..Len(port_rule.safe_bindings) :
     \/ Contains(p.process_name, port_rule.safe_bindings[k])
     \/ Contains(p.state, port_rule.safe_bindings[k])

\* the findings of a list that report on port number n: those whose issue
\* is the "exposed" or "active" issue of a rule of the tool with port n
ForPort(tool, findings, n) ==
  LET Test(f) ==
        \E i \in 1..Len(tool.ports) :
           /\ tool.ports[i].port = n
           /\ f.issue \in {ExposedFinding(tool, tool.ports[i],
                                         PortInfo(n, <<>>, 0, <<>>)).issue,
                           ActiveFinding(tool, tool.ports[i], <<>>).issue}
  IN SelectSeq(findings, Test)

\* the pass has emitted a finding for the port number of rule i before the
\* probe of rule i: an earlier rule with the same number emitted one, or the
\* table holds an entry of that number that the rule does not take for safe
ReportedBeforeProbe(tool, ports_info, i) ==
  \E j \in 1..i :
     /\ tool.ports[j].port = tool.ports[i].port
     /\ \/ \E k \in 1..Len(ports_info) :
              /\ ports_info[k].port = tool.ports[j].port
              /\ ~is_safe(tool.ports[j], ports_info[k])
        \/ j < i /\ connect_timeout(tool.ports[j].port)

\* C8: an entry of the port table that has a port rule's number and is
\* bound to one of the rule's declared safe markers (the marker occurs in
\* its process name or state) gets no snapshot-path finding.
C8_DeclaredMarkerIsSafe ==
  IsPortCheck =>
    \A i \in 1..Len(CheckedTool.ports), k \in 1..Len(ports_table) :
       (/\ ports_table[k].port = CheckedTool.ports[i].port
        /\ BoundToDeclaredMarker(CheckedTool.ports[i], ports_table[k]))
         => ~Has(last.ret,
                 ExposedFinding(CheckedTool, CheckedTool.ports[i],
                                ports_table[k]))

\* C9: the probe-derived finding of a port rule is emitted exactly when the
\* probe of its port succeeds and no finding for the same port number was
\* emitted earlier in the pass; findings for other port numbers never
\* suppress it.
C9_ProbeFindingIffNotReported ==
  IsPortCheck =>
    \A i \in 1..Len(CheckedTool.ports) :
       Has(last.ret,
           ActiveFinding(CheckedTool, CheckedTool.ports[i], StrListening))
         <=> /\ connect_timeout(CheckedTool.ports[i].port)
             /\ ~ReportedBeforeProbe(CheckedTool, ports_table, i)

\* C10: the findings check_exposed_ports returns for one tool hold at most
\* one finding per declared port number.
C10_OneFindingPerPort ==
  IsPortCheck =>
    \A i \in 1..Len(CheckedTool.ports) :
       Len(ForPort(CheckedTool, last.ret, CheckedTool.ports[i].port)) <= 1

\* the findings of a list that carry the "active" issue of a port rule
ProbeDerived(tool, port_rule, findings) ==
  LET Test(f) == f.issue = ActiveFinding(tool, port_rule, <<>>).issue
  IN SelectSeq(findings, Test)

\* C11: for every declared risk_if_exposed (Critical, High, Medium, Low) the
\* probe-derived finding of a port rule has a risk level that is not more
\* severe than the declared one.
C11_ProbeNeverMoreSevere ==
  IsPortCheck =>
    \A i \in 1..Len(CheckedTool.ports) :
       LET derived == ProbeDerived(CheckedTool, CheckedTool.ports[i], last.ret)
       IN \A k \in 1..Len(derived) :
             risk_order(derived[k].risk_level)
               >= risk_order(CheckedTool.ports[i].risk_if_exposed)

\* the port numbers the port table has an entry for
TablePorts(ports_info) == {ports_info[k].port : k \in 1..Len(ports_info)}

\* C12: a port rule whose port number is in no entry of the port table and
\* whose probe fails gets no finding from check_exposed_ports.
C12_AbsentPortNoFinding ==
  IsPortCheck =>
    \A i \in 1..Len(CheckedTool.ports) :
       (/\ CheckedTool.ports[i].port \notin TablePorts(ports_table)
        /\ CheckedTool.ports[i].port \notin listening)
         => ForPort(CheckedTool, last.ret, CheckedTool.ports[i].port) = <<>>

\* a check that returned findings for one port of the tool while another
\* port of the tool is in no table entry and refuses the probe
C12_Witness ==
  /\ IsPortCheck
  /\ last.ret # <<>>
  /\ \E i \in 1..Len(CheckedTool.ports) :
        /\ CheckedTool.ports[i].port \notin TablePorts(ports_table)
        /\ CheckedTool.ports[i].port \notin listening
        /\ CheckedTool.ports[i].port \in ProbePorts

\* the findings of a list that carry the "exposed" issue of a port rule
SnapshotDerived(tool, port_rule, findings) ==
  LET Test(f) ==
        f.issue = ExposedFinding(tool, port_rule,
                                 PortInfo(port_rule.port, <<>>, 0, <<>>)).issue
  IN SelectSeq(findings, Test)

\* C21: every snapshot-path finding carries exactly the port rule's declared
\* risk_if_exposed; every probe-path finding carries High when the declared
\* level is Critical and Medium when it is High, Medium or Low.
C21_FindingRiskLevels ==
  IsPortCheck =>
    \A i \in 1..Len(CheckedTool.ports) :
       LET rule    == CheckedTool.ports[i]
           exposed == SnapshotDerived(CheckedTool, rule, last.ret)
           active  == ProbeDerived(CheckedTool, rule, last.ret)
       IN /\ \A k \in 1..Len(exposed) :
                exposed[k].risk_level = rule.risk_if_exposed
          /\ \A k \in 1..Len(active) :
                /\ rule.risk_if_exposed = "Critical"
                     => active[k].risk_level = "High"
                /\ rule.risk_if_exposed \in {"High", "Medium", "Low"}
                     => active[k].risk_level = "Medium"

\* a check that returned a snapshot-path finding for one rule and a
\* probe-path finding for a rule declared High
C21_Witness ==
  /\ IsPortCheck
  /\ \E i, j \in 1..Len(CheckedTool.ports) :
        /\ SnapshotDerived(CheckedTool, CheckedTool.ports[i], last.ret) # <<>>
        /\ ProbeDerived(CheckedTool, CheckedTool.ports[j], last.ret) # <<>>
        /\ CheckedTool.ports[j].risk_if_exposed = "High"

\* C22: a snapshot entry with a port rule's number is treated as safe (gets
\* no snapshot-path finding) only if at least one of the strings in that
\* rule's safe_bindings occurs in the entry's process name or state.
C22_SafeOnlyByDeclaredMarker ==
  IsPortCheck =>
    \A i \in 1..Len(CheckedTool.ports), k \in 1..Len(ports_table) :
       (/\ ports_table[k].port = CheckedTool.ports[i].port
        /\ ~Has(last.ret,
                ExposedFinding(CheckedTool, CheckedTool.ports[i],
                               ports_table[k])))
         => BoundToDeclaredMarker(CheckedTool.ports[i], ports_table[k])

\* C28: within one pass a port rule never yields both a snapshot-path
\* finding and a probe-path finding: when a snapshot-path finding was emitted
\* for the rule's port, the probe of that port adds nothing, whether it
\* succeeds or not.
C28_ExposedOrActiveNeverBoth ==
  IsPortCheck =>
    \A i \in 1..Len(CheckedTool.ports) :
       (\E j \in 1..i :
           /\ CheckedTool.ports[j].port = CheckedTool.ports[i].port
           /\ SnapshotDerived(CheckedTool, CheckedTool.ports[j], last.ret)
                # <<>>)
         => ProbeDerived(CheckedTool, CheckedTool.ports[i], last.ret) = <<>>

\* a check that returned a snapshot-path finding for a port that accepted
\* the probe
C28_Witness ==
  /\ IsPortCheck
  /\ \E i \in 1..Len(CheckedTool.ports) :
        /\ SnapshotDerived(CheckedTool, CheckedTool.ports[i], last.ret) # <<>>
        /\ connect_timeout(CheckedTool.ports[i].port)

-----------------------------------------------------------------------------
(* Scans with a history: one earlier full scan is remembered together with *)
(* the workstation it saw, while the workstation changes and is scanned    *)
(* again                                                                   *)

\* how many things the workstation holds at most while a scan is remembered
MaxHistEnv == 1

\* history: remember the full scan that just returned
Remember ==
  /\ last.cmd = "scan_security_cmd"
  /\ memo = None
  /\ memo' = Some([sys |-> sys, findings |-> last.ret[1].findings,
                 changed |-> FALSE])
  /\ UNCHANGED <<ports_table, listening, environ, fs, RULES, last, threads>>

\* the changes of the port table, the probes, the tool's directory and $HOME
HistEnvChange ==
  /\ \/ \E e \in TableEntries : Bind(e)
     \/ \E i \in 1..MaxHistEnv + 1 : Release(i)
     \/ \E port \in ListenPorts : Listen(port) \/ StopListening(port)
     \/ \E path \in DirPaths : MakeDir(path)
     \/ \E path \in DirPaths, st \in FileStates : CreateEntry(path, st)
     \/ \E path \in DirPaths : Remove(path)
     \/ UnsetHome
     \/ SetHome
  /\ EnvSize' <= MaxHistEnv

NextHist ==
  \/ HistEnvChange
  \/ scan_security_cmd
  \/ scan_tool_security_cmd("clawdbot")
  \/ Remember

SpecHist == Init /\ [][NextHist]_vars

\* C5: the findings of a full scan are a function of the workstation alone:
\* a full scan returns the findings, in the order, that an earlier full
\* scan of the same workstation returned, whatever was scanned in between.
C5_SameSnapshotSameFindings ==
  (last.cmd = "scan_security_cmd" /\ IsSome(memo) /\ memo[1].sys = sys)
    => last.ret[1].findings = memo[1].findings

\* a full scan, with findings, of a workstation that was scanned before,
\* changed after that scan and is now as it was
C5_Witness ==
  /\ last.cmd = "scan_security_cmd"
  /\ IsSome(memo)
  /\ memo[1].changed
  /\ memo[1].sys = sys
  /\ Len(memo[1].findings) >= 1

-----------------------------------------------------------------------------
(* check_config_files as a function of its argument, of the files under    *)
(* the home directory and of the environment: bounded tools, filesystems   *)
(* and environments                                                        *)

\* files (config files and files in config directories) under home
MaxFiles == 2

StrDevDebug ==
  <<"D","E","V","_","D","E","B","U","G">>

\* a tool with config rules of each check kind, among them an EnvVar rule
\* without an insecure value and FileContains rules whose pattern has an
\* empty alternative; its config paths are a directory written with a
\* trailing separator and a plain file name
Rule_devtool ==
  [id |-> "devtool", name |-> "Dev Tool",
   description |-> "Local development tool",
   docs_url |-> "",
   process_names |-> <<"devtool">>,
   ports |-> <<>>,
   configs |-> <<
      [name |-> <<"D","e","v"," ","t","o","k","e","n"," ","i","n"," ","c","o","n","f","i","g">>,
       description |-> "API token stored in the tool's config",
       check |-> [kind |-> "FileContains", path_pattern |-> "**/dev.*",
                  pattern |-> <<"s","k","-","a","n","t","-","|","s","k","-">>],
       risk_level |-> "High",
       remediation |->
         <<"K","e","e","p"," ","A","P","I"," ","k","e","y","s"," ","o","u","t"," ","o","f"," ","t","h","e"," ","c","o","n","f","i","g">>],
      [name |-> <<"D","e","v"," ","r","c"," ","p","r","e","s","e","n","t">>,
       description |-> "A legacy rc file is present",
       check |-> [kind |-> "FileExists", path_pattern |-> "**/dev.*"],
       risk_level |-> "Low",
       remediation |->
         <<"R","e","m","o","v","e"," ","t","h","e"," ","r","c"," ","f","i","l","e">>],
      [name |-> <<"D","e","v"," ","p","r","o","x","i","e","s"," ","u","n","s","e","t">>,
       description |-> "No trusted proxies declared",
       check |-> [kind |-> "FileMissing", path_pattern |-> "**/dev.*",
                  pattern |-> <<"t","r","u","s","t","e","d","P","r","o","x","i","e","s">>],
       risk_level |-> "Medium",
       remediation |->
         <<"D","e","c","l","a","r","e"," ","t","r","u","s","t","e","d","P","r","o","x","i","e","s">>],
      [name |-> <<"D","e","v"," ","d","e","b","u","g"," ","e","n","a","b","l","e","d">>,
       description |-> "Debug mode is switched on by the environment",
       check |-> [kind |-> "EnvVar", name |-> StrDevDebug,
                  insecure_value |-> Some(<<"1">>)],
       risk_level |-> "Medium",
       remediation |->
         <<"U","n","s","e","t"," ","D","E","V","_","D","E","B","U","G">>],
      [name |-> <<"D","e","v"," ","t","r","a","c","e"," ","v","a","r","i","a","b","l","e">>,
       description |-> "A variable without a declared insecure value",
       check |-> [kind |-> "EnvVar", name |-> StrDevDebug,
                  insecure_value |-> None],
       risk_level |-> "Low",
       remediation |->
         <<"U","n","s","e","t"," ","D","E","V","_","D","E","B","U","G">>],
      [name |-> <<"L","i","n","t"," ","e","m","p","t","y"," ","p","a","t","t","e","r","n">>,
       description |-> "Lint rule with an empty alternative",
       check |-> [kind |-> "FileContains", path_pattern |-> "**/dev.*",
                  pattern |-> <<>>],
       risk_level |-> "Low",
       remediation |->
         <<"R","e","v","i","e","w"," ","t","h","e"," ","f","i","l","e">>],
      [name |-> <<"L","i","n","t"," ","l","e","a","d","i","n","g"," ","b","a","r">>,
       description |-> "Lint rule with an empty alternative",
       check |-> [kind |-> "FileContains", path_pattern |-> "**/dev.*",
                  pattern |-> <<"|","s","k","-">>],
       risk_level |-> "Low",
       remediation |->
         <<"R","e","v","i","e","w"," ","t","h","e"," ","f","i","l","e">>],
      [name |-> <<"L","i","n","t"," ","t","r","a","i","l","i","n","g"," ","b","a","r">>,
       description |-> "Lint rule with an empty alternative",
       check |-> [kind |-> "FileContains", path_pattern |-> "**/dev.*",
                  pattern |-> <<"s","k","-","|">>],
       risk_level |-> "Low",
       remediation |->
         <<"R","e","v","i","e","w"," ","t","h","e"," ","f","i","l","e">>],
      [name |-> <<"L","i","n","t"," ","d","o","u","b","l","e"," ","b","a","r">>,
       description |-> "Lint rule with an empty alternative",
       check |-> [kind |-> "FileContains", path_pattern |-> "**/dev.*",
                  pattern |-> <<"s","k","-","a","n","t","-","|","|","z","z">>],
       risk_level |-> "Low",
       remediation |->
         <<"R","e","v","i","e","w"," ","t","h","e"," ","f","i","l","e">>]>>,
   config_paths |-> <<<<".","c","l","a","w","d","b","o","t","/">>, <<".","a","i","d","e","r",".","c","o","n","f",".","y","m","l">>>>]

ConfigTools == <<Rule_clawdbot, Rule_aider, Rule_devtool>>

\* the paths under home that a config path of the tools resolves to
ConfigKeys == {PathClawdbot, PathAiderConf}

ContentAnt ==
  <<"s","k","-","a","n","t","-","a","p","i","0","3">>

\* contents with one alternative of "sk-ant-|sk-", with both and with none
\* (one that holds the hardening token, and the content of an empty file)
ConfigContents == {ContentKey, ContentAnt, ContentHardened, <<>>}

\* a directory that cannot be listed
LockedDirNode ==
  [kind |-> "dir", readable |-> FALSE, content |-> <<>>, entries |-> <<>>]

\* a subdirectory inside a config directory
SubDirEntry(name) ==
  [name |-> name, kind |-> "dir", readable |-> TRUE, content |-> <<>>]

\* what a direct child of a config directory can be: a readable file, a
\* file whose read fails, a subdirectory
EntriesOfLen(n) ==
  {[k \in 1..n |-> IF st[k] = <<"dir">> THEN SubDirEntry(EntryNames[k])
                   ELSE DirEntry(EntryNames[k], st[k][1], st[k][2])] :
     st \in [1..n -> {<<TRUE, c>> : c \in ConfigContents}
                       \cup {<<FALSE, <<>> >>, <<"dir">>}]}

\* what can be at a path: nothing, a file, a directory; the path of the
\* config file holds a file or nothing
NodeOptions ==
  {None, Some(LockedDirNode)}
    \cup {Some(FileNode(TRUE, c)) : c \in ConfigContents}
    \cup {Some(FileNode(FALSE, <<>>))}
    \cup {Some(DirNode(entries)) :
            entries \in UNION {EntriesOfLen(n) : n \in 0..MaxFiles}}

FilesOf(opt) ==
  IF ~IsSome(opt) THEN 0
  ELSE IF opt[1].kind = "file" THEN 1 ELSE Len(opt[1].entries)

ConfigFilesystems ==
  {[path \in {q \in ConfigKeys : IsSome(o[q])} |-> o[path][1]] :
     o \in {c \in [ConfigKeys -> NodeOptions] :
              /\ FilesOf(c[PathClawdbot]) + FilesOf(c[PathAiderConf])
                   <= MaxFiles
              /\ IsSome(c[PathAiderConf])
                   => c[PathAiderConf][1].kind = "file"}}

\* environments: HOME set or not, DEV_DEBUG unset, insecure or harmless
ConfigEnvirons ==
  {[n \in {StrHOME} |-> Some(HomeDir)],
   [n \in {StrHOME, StrDevDebug} |->
      IF n = StrHOME THEN Some(HomeDir) ELSE Some(<<"1">>)],
   [n \in {StrHOME, StrDevDebug} |->
      IF n = StrHOME THEN Some(HomeDir) ELSE Some(<<"0">>)],
   [n \in {StrDevDebug} |-> Some(<<"1">>)]}

InitConfig ==
  /\ ports_table = <<>>
  /\ listening = {18789}
  /\ environ \in ConfigEnvirons
  /\ fs \in ConfigFilesystems
  /\ RULES = Some(get_ai_tool_rules)
  /\ last = NoResult
  /\ memo = None
  /\ threads = NoThreads

\* a call check_config_files(tool)
call_check_config_files(t) ==
  LET r == check_config_files(ConfigTools[t])
  IN /\ last' = [cmd |-> "check_config_files", arg |-> ConfigTools[t].id,
                 ret |-> r.findings, io |-> r.io]
     /\ UNCHANGED <<ports_table, listening, environ, fs, RULES, memo, threads>>

\* the hardening token the FileMissing rules of the tools look for
StrTrustedProxies ==
  <<"t","r","u","s","t","e","d","P","r","o","x","i","e","s">>

\* the path of the e-th file of the directory at key, as a check names it
ChildPath(key, e) == join(key \o StrSlash, fs[key].entries[e].name)

\* history: the findings of the check that just returned, and the file that
\* is changed after it
Noted(file, change) ==
  Some([tool |-> last.arg, findings |-> last.ret, file |-> file,
        change |-> change])

\* after a check, the user adds the hardening token to a file of a config
\* directory that lacks it
AddToken(key, e) ==
  /\ last.cmd = "check_config_files"
  /\ memo = None
  /\ key \in DOMAIN fs
  /\ fs[key].kind = "dir"
  /\ e \in 1..Len(fs[key].entries)
  /\ fs[key].entries[e].kind = "file"
  /\ fs[key].entries[e].readable
  /\ ~Contains(fs[key].entries[e].content, StrTrustedProxies)
  /\ fs' = [fs EXCEPT ![key].entries[e].content =
                         @ \o <<"\n">> \o StrTrustedProxies]
  /\ memo' = Noted(ChildPath(key, e), "token")
  /\ last' = NoResult
  /\ UNCHANGED <<ports_table, listening, environ, RULES, threads>>

\* after a check, something that cannot be read is removed: a file or a
\* subdirectory of a config directory (e >= 1), or what a config path itself
\* resolves to, a file or a directory that cannot be listed (e = 0)
Vanish(key, e) ==
  /\ last.cmd = "check_config_files"
  /\ memo = None
  /\ key \in DOMAIN fs
  /\ IF e = 0
     THEN /\ ~fs[key].readable
          /\ fs' = Without(fs, key)
          /\ memo' = Noted(key, "vanish")
     ELSE /\ fs[key].kind = "dir"
          /\ fs[key].readable
          /\ e \in 1..Len(fs[key].entries)
          /\ fs[key].entries[e].kind = "dir" \/ ~fs[key].entries[e].readable
          /\ fs' = [fs EXCEPT ![key].entries = RemoveAt(@, e)]
          /\ memo' = Noted(ChildPath(key, e), "vanish")
  /\ last' = NoResult
  /\ UNCHANGED <<ports_table, listening, environ, RULES, threads>>

NextConfig ==
  \/ \E t \in 1..Len(ConfigTools) : call_check_config_files(t)
  \/ scan_security_cmd
  \/ \E key \in ConfigKeys, e \in 1..MaxFiles : AddToken(key, e)
  \/ \E key \in ConfigKeys, e \in 0..MaxFiles : Vanish(key, e)

SpecConfig == InitConfig /\ [][NextConfig]_vars

IsConfigCheck == last.cmd = "check_config_files"

-----------------------------------------------------------------------------
(* Properties of check_config_files                                        *)

\* the tool the latest check_config_files call was given
CheckedConfigTool ==
  ConfigTools[CHOOSE t \in 1..Len(ConfigTools) : ConfigTools[t].id = last.arg]

HomeIsSet == StrHOME \in DOMAIN environ

RulesOfKind(tool, kind) ==
  {i \in 1..Len(tool.configs) : tool.configs[i].check.kind = kind}

\* what the k-th config path of the tool resolves to under home, if anything
NodeAt(tool, k) ==
  LET full == join(HomeDir, tool.config_paths[k])
      key == TrimSlash(full)
  IN IF key \in DOMAIN fs /\ (full = key \/ fs[key].kind = "dir")
     THEN Some(fs[key])
     ELSE None

\* the readable files a file check of the tool inspects: a config path that
\* is a readable file, and the readable files directly inside a config path
\* that is a directory that can be listed
ReadableFiles(tool) ==
  UNION {LET node == NodeAt(tool, k)
             full == join(HomeDir, tool.config_paths[k])
         IN IF ~IsSome(node) THEN {}
            ELSE IF node[1].kind = "file"
            THEN IF node[1].readable
                 THEN {[path |-> full, content |-> node[1].content,
                        child |-> FALSE]}
                 ELSE {}
            ELSE IF ~node[1].readable THEN {}
            ELSE {[path |-> join(full, node[1].entries[e].name),
                   content |-> node[1].entries[e].content,
                   child |-> TRUE] :
                    e \in {x \in 1..Len(node[1].entries) :
                             /\ node[1].entries[x].kind = "file"
                             /\ node[1].entries[x].readable}}
         : k \in 1..Len(tool.config_paths)}

\* how many findings of a list carry this issue and these details
CountOf(findings, issue, details) ==
  Cardinality({k \in 1..Len(findings) :
                 findings[k].issue = issue /\ findings[k].details = details})

CountIssue(findings, issue) ==
  Cardinality({k \in 1..Len(findings) : findings[k].issue = issue})

\* at least one '|'-separated alternative of the pattern occurs in content
SomeAlternativeIn(content, pattern) ==
  \E a \in 1..Len(split(pattern, "|")) :
     Contains(content, split(pattern, "|")[a])

AlternativesIn(content, pattern) ==
  {a \in 1..Len(split(pattern, "|")) :
     Contains(content, split(pattern, "|")[a])}

\* C13: for a FileContains rule every readable file inspected (the config
\* path itself if it is a file, a direct child if it is a directory) has
\* exactly one finding naming it when at least one '|'-alternative of the
\* pattern occurs in its content, however many do, and none otherwise; the
\* rule has no other findings, so two matching files have one finding each.
C13_OneFindingPerMatchingFile ==
  (IsConfigCheck /\ HomeIsSet) =>
    \A i \in RulesOfKind(CheckedConfigTool, "FileContains") :
       LET rule == CheckedConfigTool.configs[i]
           files == ReadableFiles(CheckedConfigTool)
           matching == {f \in files :
                          SomeAlternativeIn(f.content, rule.check.pattern)}
       IN /\ \A f \in files :
               CountOf(last.ret, rule.name, StrFoundIn \o f.path)
                 = IF f \in matching THEN 1 ELSE 0
          /\ CountIssue(last.ret, rule.name) = Cardinality(matching)

\* a check that found two matching files for one FileContains rule, one of
\* them with two alternatives of the pattern in its content
C13_Witness ==
  /\ IsConfigCheck
  /\ HomeIsSet
  /\ \E i \in RulesOfKind(CheckedConfigTool, "FileContains") :
        LET rule == CheckedConfigTool.configs[i]
            files == ReadableFiles(CheckedConfigTool)
        IN /\ CountIssue(last.ret, rule.name) = 2
           /\ \E f, g \in files :
                 /\ f.path # g.path
                 /\ Cardinality(AlternativesIn(f.content, rule.check.pattern)) = 2
                 /\ Cardinality(AlternativesIn(g.content, rule.check.pattern)) = 1
                 /\ CountOf(last.ret, rule.name, StrFoundIn \o f.path) = 1
                 /\ CountOf(last.ret, rule.name, StrFoundIn \o g.path) = 1

\* the details of the finding of a FileMissing rule that names a file
MissingDetails(rule, path) ==
  StrMissing \o rule.check.pattern \o StrMissingIn \o path

\* a finding of a FileMissing rule of the tool that names the file
IsMissingFindingOf(tool, f, path) ==
  \E i \in RulesOfKind(tool, "FileMissing") :
     /\ f.issue = tool.configs[i].name
     /\ f.details = MissingDetails(tool.configs[i], path)

\* a check of the same tool after the change that memo notes
IsRecheckAfter(change) ==
  /\ IsConfigCheck
  /\ HomeIsSet
  /\ IsSome(memo)
  /\ memo[1].change = change
  /\ memo[1].tool = last.arg

\* C14: for a FileMissing rule every readable file directly inside a config
\* path that is an existing directory has one finding naming it when its
\* content lacks the pattern and none when it holds it; the rule has no
\* other findings (none for a config path that is a regular file or does not
\* exist).  After the token is added to a file, a new check returns the
\* earlier findings without those of that file.
C14_OneFindingPerFileLackingToken ==
  /\ (IsConfigCheck /\ HomeIsSet) =>
       \A i \in RulesOfKind(CheckedConfigTool, "FileMissing") :
          LET rule == CheckedConfigTool.configs[i]
              children == {f \in ReadableFiles(CheckedConfigTool) : f.child}
              lacking == {f \in children :
                            ~Contains(f.content, rule.check.pattern)}
          IN /\ \A f \in children :
                  CountOf(last.ret, rule.name, MissingDetails(rule, f.path))
                    = IF f \in lacking THEN 1 ELSE 0
             /\ CountIssue(last.ret, rule.name) = Cardinality(lacking)
  /\ IsRecheckAfter("token") =>
       LET Kept(f) == ~IsMissingFindingOf(CheckedConfigTool, f, memo[1].file)
       IN last.ret = SelectSeq(memo[1].findings, Kept)

\* a check after the token was added to one of two flagged files of a
\* directory: the finding of that file is gone, the other file's is there
C14_Witness ==
  /\ IsRecheckAfter("token")
  /\ \E i \in RulesOfKind(CheckedConfigTool, "FileMissing") :
        LET rule == CheckedConfigTool.configs[i]
        IN /\ CountOf(memo[1].findings, rule.name,
                      MissingDetails(rule, memo[1].file)) = 1
           /\ CountIssue(memo[1].findings, rule.name) = 2
           /\ CountOf(last.ret, rule.name,
                      MissingDetails(rule, memo[1].file)) = 0
           /\ CountIssue(last.ret, rule.name) = 1

\* none of the tool's config paths resolves to something that exists
NoConfigPathExists(tool) ==
  \A k \in 1..Len(tool.config_paths) : NodeAt(tool, k) = None

\* the variable of an EnvVar rule is set to the rule's insecure value
HoldsInsecureValue(rule) ==
  /\ rule.check.name \in DOMAIN environ
  /\ IsSome(rule.check.insecure_value)
  /\ environ[rule.check.name] = rule.check.insecure_value

\* C15: when none of a tool's config paths resolves to an existing path
\* under home, check_config_files returns no finding, whatever the kinds of
\* the tool's config rules are.
C15_NoExistingPathNoFinding ==
  (IsConfigCheck /\ HomeIsSet /\ NoConfigPathExists(CheckedConfigTool))
    => last.ret = <<>>

\* C15 as amended: when none of a tool's config paths resolves to an
\* existing path under home, check_config_files returns no finding of a
\* FileContains, FileExists or FileMissing rule; an EnvVar rule has its one
\* finding exactly when its variable holds the insecure value.
C15_NoExistingPathNoFileFinding ==
  (IsConfigCheck /\ HomeIsSet /\ NoConfigPathExists(CheckedConfigTool))
    => \A i \in 1..Len(CheckedConfigTool.configs) :
          LET rule == CheckedConfigTool.configs[i]
          IN CountIssue(last.ret, rule.name)
               = IF rule.check.kind = "EnvVar" /\ HoldsInsecureValue(rule)
                 THEN 1 ELSE 0

\* a check of a tool with rules of the four kinds whose directory config
\* path is taken by a regular file with a key in it, while the EnvVar rule's
\* variable holds the insecure value
C15_Witness ==
  /\ IsConfigCheck
  /\ HomeIsSet
  /\ NoConfigPathExists(CheckedConfigTool)
  /\ \A kind \in {"FileContains", "FileExists", "FileMissing", "EnvVar"} :
        RulesOfKind(CheckedConfigTool, kind) # {}
  /\ PathClawdbot \in DOMAIN fs
  /\ fs[PathClawdbot].content = ContentKey
  /\ Len(last.ret) = 1

\* the port findings of every tool of the catalog, in encounter order
AllPortFindings ==
  LET RECURSIVE From(_)
      From(t) ==
        IF t > Len(get_ai_tool_rules) THEN <<>>
        ELSE check_exposed_ports(get_ai_tool_rules[t], ports_table).findings
               \o From(t + 1)
  IN From(1)

\* C16: when HOME is not set, check_config_files returns the empty list for
\* every tool, also for an EnvVar rule whose variable holds the insecure
\* value, and reads nothing; the full scan still returns a result, whose
\* findings are the port findings.
C16_NoHomeNoConfigFindings ==
  /\ (IsConfigCheck /\ ~HomeIsSet) => (last.ret = <<>> /\ last.io = <<>>)
  /\ (IsFullScan /\ ~HomeIsSet) =>
       /\ IsSome(last.ret)
       /\ last.ret[1].findings = sort_by(AllPortFindings)

\* a full scan without HOME that returned port findings, on a workstation
\* with a key in a config file and the insecure value in the variable of an
\* EnvVar rule, where check_config_files returns nothing for that rule's tool
C16_Witness ==
  /\ IsFullScan
  /\ ~HomeIsSet
  /\ last.ret[1].findings # <<>>
  /\ \E i \in RulesOfKind(Rule_devtool, "EnvVar") :
        HoldsInsecureValue(Rule_devtool.configs[i])
  /\ PathAiderConf \in DOMAIN fs
  /\ fs[PathAiderConf].content = ContentKey
  /\ check_config_files(Rule_devtool).findings = <<>>

\* the findings that FileExists rules give for the config paths of the tool
\* that resolve to the path
IsExistsFindingOf(tool, f, path) ==
  \E k \in 1..Len(tool.config_paths) :
     /\ TrimSlash(join(HomeDir, tool.config_paths[k])) = path
     /\ f.details = StrFileExists \o join(HomeDir, tool.config_paths[k])

\* the findings of FileContains and FileMissing rules that name the file
IsContentFindingOf(tool, f, path) ==
  \/ f.details = StrFoundIn \o path
  \/ IsMissingFindingOf(tool, f, path)

\* C17: a file that cannot be read, and a directory that cannot be listed,
\* has no FileContains and no FileMissing finding, and the check goes on:
\* what it returns for the other files, config paths and rules is what it
\* returns when that file is not there.
C17_UnreadableIsNoEvidence ==
  IsRecheckAfter("vanish") =>
    LET Other(f) == ~IsExistsFindingOf(CheckedConfigTool, f, memo[1].file)
    IN /\ \A k \in 1..Len(memo[1].findings) :
            ~IsContentFindingOf(CheckedConfigTool, memo[1].findings[k],
                                memo[1].file)
       /\ SelectSeq(last.ret, Other) = SelectSeq(memo[1].findings, Other)

\* a check after an unreadable file was removed from a directory that
\* also holds a file with a finding, which both checks returned
C17_Witness ==
  /\ IsRecheckAfter("vanish")
  /\ last.ret # <<>>
  /\ last.ret = memo[1].findings
  /\ \E f \in ReadableFiles(CheckedConfigTool) :
        /\ f.child
        /\ CountOf(last.ret, last.ret[1].issue, StrFoundIn \o f.path) = 1

\* the config paths of the tool that resolve to something under home
ExistingPaths(tool) ==
  {k \in 1..Len(tool.config_paths) : IsSome(NodeAt(tool, k))}

\* C24: for a FileExists rule, checkConfigFiles emits exactly one finding for
\* each of the tool's config paths that exists under home, be it a file or a
\* directory, readable or not, and none for a config path that does not
\* exist.
C24_OneFindingPerExistingPath ==
  (IsConfigCheck /\ HomeIsSet) =>
    \A i \in RulesOfKind(CheckedConfigTool, "FileExists") :
       LET rule == CheckedConfigTool.configs[i]
       IN /\ \A k \in 1..Len(CheckedConfigTool.config_paths) :
               CountOf(last.ret, rule.name,
                       StrFileExists
                         \o join(HomeDir, CheckedConfigTool.config_paths[k]))
                 = IF k \in ExistingPaths(CheckedConfigTool) THEN 1 ELSE 0
          /\ CountIssue(last.ret, rule.name)
               = Cardinality(ExistingPaths(CheckedConfigTool))

\* a check of a tool with a FileExists rule and two config paths: one is a
\* directory that cannot be listed, the other a file that cannot be read,
\* and the rule has its two findings
C24_Witness ==
  /\ IsConfigCheck
  /\ HomeIsSet
  /\ \E i \in RulesOfKind(CheckedConfigTool, "FileExists") :
        /\ CountIssue(last.ret, CheckedConfigTool.configs[i].name) = 2
        /\ \E k, m \in ExistingPaths(CheckedConfigTool) :
              /\ NodeAt(CheckedConfigTool, k)[1].kind = "dir"
              /\ ~NodeAt(CheckedConfigTool, k)[1].readable
              /\ NodeAt(CheckedConfigTool, m)[1].kind = "file"
              /\ ~NodeAt(CheckedConfigTool, m)[1].readable

\* C25: for an EnvVar rule, with home resolvable, checkConfigFiles emits
\* exactly one finding when the named variable is set and equal to the rule's
\* declared insecure value, and none when the variable is unset, holds
\* another value or the rule declares no insecure value, whatever the tool's
\* config paths resolve to.
C25_EnvVarFindingIffInsecureValue ==
  (IsConfigCheck /\ HomeIsSet) =>
    \A i \in RulesOfKind(CheckedConfigTool, "EnvVar") :
       LET rule == CheckedConfigTool.configs[i]
           insecure ==
             /\ rule.check.name \in DOMAIN environ
             /\ IsSome(rule.check.insecure_value)
             /\ environ[rule.check.name] = rule.check.insecure_value
       IN /\ CountIssue(last.ret, rule.name) = IF insecure THEN 1 ELSE 0
          /\ CountOf(last.ret, rule.name,
                     StrEnvVar \o rule.check.name \o StrInsecure)
               = CountIssue(last.ret, rule.name)

\* a check with the variable set to the insecure value of one EnvVar rule
\* while another EnvVar rule on the same variable declares no insecure
\* value: the first has its finding, the second has none; a config path of
\* the tool exists
C25_Witness ==
  /\ IsConfigCheck
  /\ HomeIsSet
  /\ ExistingPaths(CheckedConfigTool) # {}
  /\ \E i, j \in RulesOfKind(CheckedConfigTool, "EnvVar") :
        /\ CheckedConfigTool.configs[i].check.name \in DOMAIN environ
        /\ CheckedConfigTool.configs[j].check.name
             = CheckedConfigTool.configs[i].check.name
        /\ ~IsSome(CheckedConfigTool.configs[j].check.insecure_value)
        /\ CountIssue(last.ret, CheckedConfigTool.configs[i].name) = 1
        /\ CountIssue(last.ret, CheckedConfigTool.configs[j].name) = 0

\* the tool with the path_pattern of each of its file rules replaced
WithPathPattern(tool, glob) ==
  [tool EXCEPT !.configs =
     [i \in 1..Len(tool.configs) |->
        IF tool.configs[i].check.kind = "EnvVar" THEN tool.configs[i]
        ELSE [tool.configs[i] EXCEPT !.check.path_pattern = glob]]]

\* the file name of a path: what follows its last separator
FileName(path) ==
  LET pieces == split(path, "/")
  IN pieces[Len(pieces)]

\* C29: the path_pattern of a FileContains, FileMissing or FileExists rule has
\* no effect: the tool with every path_pattern replaced by another one gets
\* the same findings, and a FileContains or FileMissing rule has its finding
\* for a readable direct child of a config path whatever the child's name.
C29_PathPatternHasNoEffect ==
  (IsConfigCheck /\ HomeIsSet) =>
    /\ \A glob \in {"**/*", "**/nothing.*"} :
          last.ret
            = check_config_files(WithPathPattern(CheckedConfigTool, glob)).findings
    /\ \A f \in ReadableFiles(CheckedConfigTool) :
          f.child =>
            /\ \A i \in RulesOfKind(CheckedConfigTool, "FileContains") :
                  SomeAlternativeIn(f.content,
                                    CheckedConfigTool.configs[i].check.pattern)
                    => CountOf(last.ret, CheckedConfigTool.configs[i].name,
                               StrFoundIn \o f.path) = 1
            /\ \A i \in RulesOfKind(CheckedConfigTool, "FileMissing") :
                  ~Contains(f.content,
                            CheckedConfigTool.configs[i].check.pattern)
                    => CountOf(last.ret, CheckedConfigTool.configs[i].name,
                               MissingDetails(CheckedConfigTool.configs[i],
                                              f.path)) = 1

\* a check of the catalog's clawdbot rule, whose path_pattern is
\* "**/clawdbot.config.*", that has a FileContains finding and a FileMissing
\* finding for files named a.json and b.json
C29_Witness ==
  /\ IsConfigCheck
  /\ HomeIsSet
  /\ last.arg = "clawdbot"
  /\ \E f, g \in ReadableFiles(CheckedConfigTool) :
        /\ f.child /\ g.child
        /\ FileName(f.path) # FileName(g.path)
        /\ \E i \in RulesOfKind(CheckedConfigTool, "FileContains") :
              CountOf(last.ret, CheckedConfigTool.configs[i].name,
                      StrFoundIn \o f.path) = 1
        /\ \E i \in RulesOfKind(CheckedConfigTool, "FileMissing") :
              CountOf(last.ret, CheckedConfigTool.configs[i].name,
                      MissingDetails(CheckedConfigTool.configs[i], g.path)) = 1

\* the pattern is empty, starts or ends with '|', or contains "||"
HasEmptyAlternative(pattern) ==
  \/ pattern = <<>>
  \/ pattern[1] = "|"
  \/ pattern[Len(pattern)] = "|"
  \/ \E k \in 1..(Len(pattern) - 1) : pattern[k] = "|" /\ pattern[k + 1] = "|"

\* C30: a FileContains pattern with an empty alternative matches every
\* readable file: each readable file under the tool's config paths has
\* exactly one finding of that rule, whatever its content, an empty file
\* included, and the rule has no other findings.
C30_EmptyAlternativeMatchesEveryFile ==
  (IsConfigCheck /\ HomeIsSet) =>
    \A i \in RulesOfKind(CheckedConfigTool, "FileContains") :
       HasEmptyAlternative(CheckedConfigTool.configs[i].check.pattern) =>
         /\ \A f \in ReadableFiles(CheckedConfigTool) :
               CountOf(last.ret, CheckedConfigTool.configs[i].name,
                       StrFoundIn \o f.path) = 1
         /\ CountIssue(last.ret, CheckedConfigTool.configs[i].name)
              = Cardinality(ReadableFiles(CheckedConfigTool))

\* a check of a tool with the four kinds of empty alternative, over an empty
\* file and a file whose content holds none of the non-empty alternatives
C30_Witness ==
  /\ IsConfigCheck
  /\ HomeIsSet
  /\ \A kind \in 1..4 :
        \E i \in RulesOfKind(CheckedConfigTool, "FileContains") :
           LET pattern == CheckedConfigTool.configs[i].check.pattern
           IN /\ CASE kind = 1 -> pattern = <<>>
                    [] kind = 2 -> pattern # <<>> /\ pattern[1] = "|"
                    [] kind = 3 -> pattern # <<>> /\ pattern[Len(pattern)] = "|"
                    [] kind = 4 -> Contains(pattern, <<"|", "|">>)
              /\ CountIssue(last.ret, CheckedConfigTool.configs[i].name) = 2
  /\ \E f, g \in ReadableFiles(CheckedConfigTool) :
        /\ f.content = <<>>
        /\ g.content = ContentHardened

-----------------------------------------------------------------------------
(* The four scan operations on a workstation that changes between them     *)

NextOps ==
  \/ EnvChange
  \/ scan_security_cmd
  \/ \E tool_id \in {"clawdbot", "clawd"} : scan_tool_security_cmd(tool_id)
  \/ \E t \in 1..Len(PortTools) : call_check_exposed_ports(t)
  \/ \E t \in 1..Len(ConfigTools) : call_check_config_files(t)

SpecOps == Init /\ [][NextOps]_vars

\* a scan operation has returned and nothing has happened since
ScanReturned == last.cmd # "none"

\* C18: a scan operation (full scan, single-tool scan, check_exposed_ports,
\* check_config_files) leaves the inspected system as it is: the files under
\* home, the environment variables, the port table and the ports that accept
\* connections are the same after the operation as before it, the catalog
\* that get_rules returns is the same, and an installed catalog stays.
C18_ScansChangeNothing ==
  [][ScanReturned' =>
       /\ fs' = fs
       /\ environ' = environ
       /\ ports_table' = ports_table
       /\ listening' = listening
       /\ get_rules' = get_rules
       /\ IsSome(RULES) => RULES' = RULES]_vars

\* check_config_files has returned findings on a workstation with a bound
\* port, a port that accepts connections and a file
C18_Witness ==
  /\ last.cmd = "check_config_files"
  /\ last.ret # <<>>
  /\ ports_table # <<>>
  /\ listening # {}
  /\ DOMAIN fs # {}

-----------------------------------------------------------------------------
(* The full scan under failing probes, unreadable files and a missing HOME *)

\* the probes a full scan makes when it visits every port rule of the catalog
AllProbes ==
  LET RECURSIVE From(_)
      From(t) ==
        IF t > Len(get_ai_tool_rules) THEN <<>>
        ELSE [i \in 1..Len(get_ai_tool_rules[t].ports) |->
                IoConnect(get_ai_tool_rules[t].ports[i].port)]
               \o From(t + 1)
  IN From(1)

IsConnect(ev) == ev.op = "connect"

\* C19: whatever probes are refused, whatever files are missing or cannot be
\* read and whether HOME is set or not, a full scan returns a result; it has
\* then gone through every port rule of every tool, and a port whose probe
\* was refused has no finding from the probe path.
C19_FullScanAlwaysReturns ==
  IsFullScan =>
    /\ IsSome(last.ret)
    /\ SelectSeq(last.io, IsConnect) = AllProbes
    /\ \A t \in 1..Len(get_ai_tool_rules) :
          \A i \in 1..Len(get_ai_tool_rules[t].ports) :
             get_ai_tool_rules[t].ports[i].port \notin listening
               => ProbeDerived(get_ai_tool_rules[t],
                               get_ai_tool_rules[t].ports[i],
                               last.ret[1].findings) = <<>>

\* a full scan that returned findings although probes were refused and a
\* file it tried to read in a config directory cannot be read
C19_Witness ==
  /\ IsFullScan
  /\ IsSome(last.ret)
  /\ last.ret[1].findings # <<>>
  /\ \E ev \in {last.io[k] : k \in 1..Len(last.io)} :
        IsConnect(ev) /\ ev.port \notin listening
  /\ \E path \in DOMAIN fs :
        \E e \in 1..Len(fs[path].entries) :
           /\ ~fs[path].entries[e].readable
           /\ \E k \in 1..Len(last.io) :
                 last.io[k] = IoReadFile(join(path \o StrSlash,
                                              fs[path].entries[e].name))

IsSnapshot(ev) == ev.op = "get_ports_in_use"

\* C23: a full scan obtains the port snapshot exactly once, before the first
\* probe, and then makes exactly one probe of 127.0.0.1 for every port rule
\* of every registry tool, in registry and rule order, whether or not the
\* snapshot path emitted a finding for that port.
C23_OneSnapshotThenEveryProbe ==
  IsFullScan =>
    /\ last.io # <<>>
    /\ IsSnapshot(last.io[1])
    /\ Len(SelectSeq(last.io, IsSnapshot)) = 1
    /\ Len(SelectSeq(last.io, IsConnect)) = Len(AllProbes)
    /\ \A k \in 1..Len(AllProbes) :
          SelectSeq(last.io, IsConnect)[k].port = AllProbes[k].port

\* a full scan that returned a snapshot-path finding for a port of the
\* table and probed that port all the same
C23_Witness ==
  /\ IsFullScan
  /\ \E t \in 1..Len(get_ai_tool_rules) :
        \E i \in 1..Len(get_ai_tool_rules[t].ports) :
           /\ SnapshotDerived(get_ai_tool_rules[t],
                              get_ai_tool_rules[t].ports[i],
                              last.ret[1].findings) # <<>>
           /\ get_ai_tool_rules[t].ports[i].port \in TablePorts(ports_table)
           /\ Has(last.io, IoConnect(get_ai_tool_rules[t].ports[i].port))

\* the findings of a list that belong to one tool, in the order of the list
OfTool(findings, tool_id) ==
  LET Test(f) == f.tool_id = tool_id
  IN SelectSeq(findings, Test)

\* C26: against the same system snapshot, for every registry tool T the
\* findings of the full-scan result whose tool_id is T are the same findings,
\* in the same order, as the findings of scan_specific_tool(T).
C26_ToolScanIsRestrictedFullScan ==
  IsFullScan =>
    \A t \in 1..Len(get_rules) :
       OfTool(last.ret[1].findings, get_rules[t].id)
         = scan_specific_tool(get_rules[t].id).ret[1].findings

-----------------------------------------------------------------------------
(* definitions.rs: get_rules() called from several threads.  The steps of  *)
(* OnceLock::get_or_init: the check of the cell, Once::call with its       *)
(* states INCOMPLETE, RUNNING and COMPLETE, the initializer, the read      *)

\* calls of get_rules() one thread makes at most
MaxCalls == 2

\* mutant of once_state: the cell is tested without the Once, so that a
\* running initializer is not seen
once_state_unsynchronized ==
  IF IsSome(RULES) THEN "COMPLETE" ELSE "INCOMPLETE"

\* the state of the Once of the cell
once_state ==
  IF IsSome(RULES) THEN "COMPLETE"
  ELSE IF \E t \in Threads : threads[t].pc = "init" THEN "RUNNING"
  ELSE "INCOMPLETE"

\* history: how often an initializer has stored a catalog, and the first one
Installed(m, catalog) ==
  IF IsSome(m) THEN Some([m[1] EXCEPT !.installs = @ + 1])
  ELSE Some([installs |-> 1, first |-> catalog])

\* a thread calls get_rules()
get_rules_call(t) ==
  /\ threads[t].pc = "idle"
  /\ threads[t].calls < MaxCalls
  /\ threads' = [threads EXCEPT ![t].pc = "get", ![t].calls = @ + 1,
                                ![t].ret = None]
  /\ UNCHANGED <<ports_table, listening, environ, fs, RULES, last, memo>>

\* get_or_init: `if let Some(value) = self.get() { return value; }`
get_or_init_get(t) ==
  /\ threads[t].pc = "get"
  /\ threads' = IF IsSome(RULES)
                THEN [threads EXCEPT ![t].pc = "ret", ![t].ret = RULES]
                ELSE [threads EXCEPT ![t].pc = "once", ![t].slow = TRUE]
  /\ UNCHANGED <<ports_table, listening, environ, fs, RULES, last, memo>>

\* Once::call: the thread that finds INCOMPLETE sets RUNNING and runs the
\* initializer, one that finds RUNNING waits, one that finds COMPLETE goes on
call_once(t) ==
  /\ threads[t].pc = "once"
  /\ once_state # "RUNNING"
  /\ threads' = [threads EXCEPT ![t].pc = IF once_state = "INCOMPLETE"
                                          THEN "init" ELSE "read"]
  /\ UNCHANGED <<ports_table, listening, environ, fs, RULES, last, memo>>

\* the initializer: the value of get_ai_tool_rules() is stored in the cell
\* and the Once is set COMPLETE
initialize(t) ==
  /\ threads[t].pc = "init"
  /\ RULES' = Some(get_ai_tool_rules)
  /\ memo' = Installed(memo, get_ai_tool_rules)
  /\ threads' = [threads EXCEPT ![t].pc = "read"]
  /\ UNCHANGED <<ports_table, listening, environ, fs, last>>

\* get_or_init: `unsafe { self.get_unchecked() }`
get_unchecked(t) ==
  /\ threads[t].pc = "read"
  /\ threads' = [threads EXCEPT ![t].pc = "ret", ![t].ret = RULES]
  /\ UNCHANGED <<ports_table, listening, environ, fs, RULES, last, memo>>

\* get_rules() returns; the thread keeps the reference it got
get_rules_return(t) ==
  /\ threads[t].pc = "ret"
  /\ threads' = [threads EXCEPT ![t].pc = "idle"]
  /\ UNCHANGED <<ports_table, listening, environ, fs, RULES, last, memo>>

NextRegistry ==
  \E t \in Threads :
     \/ get_rules_call(t)
     \/ get_or_init_get(t)
     \/ call_once(t)
     \/ initialize(t)
     \/ get_unchecked(t)
     \/ get_rules_return(t)

SpecRegistry == Init /\ [][NextRegistry]_vars

\* C20: however the first calls of get_rules() from several threads
\* interleave, the catalog is stored in the cell once; every call, among the
\* first ones or later, returns the stored catalog, which is the catalog of
\* get_ai_tool_rules with its tools in their order; the stored catalog never
\* changes.
C20_RegistryInstalledOnce ==
  /\ IsSome(RULES) <=> IsSome(memo)
  /\ IsSome(memo) =>
       /\ memo[1].installs = 1
       /\ RULES = Some(memo[1].first)
  /\ \A t \in Threads :
        IsSome(threads[t].ret) =>
          /\ IsSome(memo)
          /\ threads[t].ret[1] = memo[1].first
          /\ [k \in 1..Len(threads[t].ret[1]) |-> threads[t].ret[1][k].id]
               = [k \in 1..Len(get_ai_tool_rules) |-> get_ai_tool_rules[k].id]

\* every thread has found the cell empty in its first call, so that the
\* first calls overlapped; all calls have returned and one thread has made
\* a later call
C20_Witness ==
  /\ \A t \in Threads :
        /\ threads[t].pc = "idle"
        /\ IsSome(threads[t].ret)
        /\ threads[t].slow
  /\ \E t \in Threads : threads[t].calls = 2

-----------------------------------------------------------------------------
(* commands/security.rs: scan commands running at the same time, each on   *)
(* its own thread.  A command is taken apart at the places where it        *)
(* touches something another thread can touch too: the port snapshot, the  *)
(* registry cell (by the steps of get_rules above) and the reads of the    *)
(* workstation, which does not change while the commands run               *)

\* scan commands that run at the same time
MaxScans == 2

ScanThreads == 1..MaxScans

\* workstations with findings of several tools and levels
InitScans ==
  /\ ports_table \in {<<>>, <<PortInfo(18790, ProcNode, 4242, StateListen)>>}
  /\ listening = {18789}
  /\ environ = [n \in {StrHOME} |-> Some(HomeDir)]
  /\ fs = [x \in {PathClawdbot} |->
             DirNode(<<DirEntry(EntryNames[1], TRUE, ContentKey)>>)]
  /\ RULES = None
  /\ last = NoResult
  /\ memo = None
  /\ threads = NoThreads

\* the frontend invokes scan_security_cmd or scan_tool_security_cmd(tool_id)
\* and the command starts on a thread of its own
scan_cmd_invoke(t, cmd, tool_id) ==
  /\ threads[t].scan.at = "none"
  /\ threads' = [threads EXCEPT ![t].scan =
                   [NoScan EXCEPT !.cmd = cmd, !.arg = tool_id,
                                  !.at = IF cmd = "scan_security_cmd"
                                         THEN "snapshot" ELSE "rules"]]
  /\ UNCHANGED <<ports_table, listening, environ, fs, RULES, last, memo>>

\* get_security_findings: `let ports_info = get_ports_in_use();`
get_security_findings_snapshot(t) ==
  /\ threads[t].scan.at = "snapshot"
  /\ threads' = [threads EXCEPT ![t].scan.ports_info = get_ports_in_use,
                                ![t].scan.at = "rules"]
  /\ UNCHANGED <<ports_table, listening, environ, fs, RULES, last, memo>>

\* `let rules = get_rules();` of the three scan functions
scan_get_rules(t) ==
  /\ threads[t].scan.at \in {"rules", "names"}
  /\ get_rules_call(t)

\* mutant of extend: the findings vector is one vector that all commands
\* push to
extend_shared(ths, t, found) ==
  [u \in DOMAIN ths |->
     IF ths[u].scan.at \in {"none", "done"} THEN ths[u]
     ELSE [ths[u] EXCEPT !.scan.findings = @ \o found]]

\* Vec::extend on the findings vector of the command that thread t runs
extend(ths, t, found) == [ths EXCEPT ![t].scan.findings = @ \o found]

\* get_security_findings: the loop over the rules that get_rules() returned,
\* with the snapshot taken before
get_security_findings_loop(t) ==
  /\ threads[t].scan.cmd = "scan_security_cmd"
  /\ threads[t].scan.at = "rules"
  /\ threads[t].pc = "ret"
  /\ LET found == ToolLoop(threads[t].ret[1], threads[t].scan.ports_info, 1,
                           [findings |-> <<>>, io |-> <<>>])
     IN threads' = extend([threads EXCEPT ![t].pc = "idle",
                                          ![t].scan.at = "sort"],
                          t, found.findings)
  /\ UNCHANGED <<ports_table, listening, environ, fs, RULES, last, memo>>

\* get_security_findings: all_findings.sort_by(..), then the return to
\* scan_ai_tool_security, which calls get_rules() next
get_security_findings_sort(t) ==
  /\ threads[t].scan.at = "sort"
  /\ threads' = [threads EXCEPT ![t].scan.findings = sort_by(@),
                                ![t].scan.at = "names"]
  /\ UNCHANGED <<ports_table, listening, environ, fs, RULES, last, memo>>

\* scan_ai_tool_security: the summary, the tool names and the result
scan_ai_tool_security_return(t) ==
  /\ threads[t].scan.at = "names"
  /\ threads[t].pc = "ret"
  /\ LET rules == threads[t].ret[1]
         findings == threads[t].scan.findings
     IN threads' =
          [threads EXCEPT
             ![t].pc = "idle",
             ![t].scan.at = "done",
             ![t].scan.ret =
                Some([tools_scanned |->
                        [k \in 1..Len(rules) |-> rules[k].name],
                      findings      |-> findings,
                      summary       |-> SecuritySummary(findings)])]
  /\ UNCHANGED <<ports_table, listening, environ, fs, RULES, last, memo>>

\* scan_specific_tool: `rules.iter().find(|t| t.id == tool_id)?`
scan_specific_tool_find(t) ==
  /\ threads[t].scan.cmd = "scan_tool_security_cmd"
  /\ threads[t].scan.at = "rules"
  /\ threads[t].pc = "ret"
  /\ threads' = [threads EXCEPT
                   ![t].pc = "idle",
                   ![t].scan.at =
                      IF IsSome(find(threads[t].ret[1], threads[t].scan.arg))
                      THEN "check" ELSE "done"]
  /\ UNCHANGED <<ports_table, listening, environ, fs, RULES, last, memo>>

\* scan_specific_tool: the snapshot, the two checks of the tool, the summary
\* and the result
scan_specific_tool_check(t) ==
  /\ threads[t].scan.at = "check"
  /\ LET tool == find(threads[t].ret[1], threads[t].scan.arg)[1]
         ports_info == get_ports_in_use
         ths1 == extend([threads EXCEPT ![t].scan.ports_info = ports_info],
                        t, check_exposed_ports(tool, ports_info).findings)
         ths2 == extend(ths1, t, check_config_files(tool).findings)
     IN threads' =
          [ths2 EXCEPT
             ![t].scan.at = "done",
             ![t].scan.ret =
                Some([tools_scanned |-> <<tool.name>>,
                      findings      |-> ths2[t].scan.findings,
                      summary       |-> SecuritySummary(ths2[t].scan.findings)])]
  /\ UNCHANGED <<ports_table, listening, environ, fs, RULES, last, memo>>

NextScans ==
  \E t \in ScanThreads :
     \/ scan_cmd_invoke(t, "scan_security_cmd", "")
     \/ \E tool_id \in {"clawdbot", "clawd"} :
           scan_cmd_invoke(t, "scan_tool_security_cmd", tool_id)
     \/ get_security_findings_snapshot(t)
     \/ scan_get_rules(t)
     \/ get_or_init_get(t)
     \/ call_once(t)
     \/ initialize(t)
     \/ get_unchecked(t)
     \/ get_security_findings_loop(t)
     \/ get_security_findings_sort(t)
     \/ scan_ai_tool_security_return(t)
     \/ scan_specific_tool_find(t)
     \/ scan_specific_tool_check(t)

SpecScans == InitScans /\ [][NextScans]_vars

\* what the command of a thread returns when it runs alone on the
\* workstation
RunAlone(scan) ==
  IF scan.cmd = "scan_security_cmd" THEN scan_ai_tool_security.ret
  ELSE scan_specific_tool(scan.arg).ret

\* C27: when scan commands, full or single-tool, run at the same time
\* against an unchanged workstation, then under every interleaving of their
\* steps each returns the findings and the summary (and the tool names) it
\* returns when it runs alone.
C27_ConcurrentScansAsAlone ==
  \A t \in ScanThreads :
     threads[t].scan.at = "done" =>
       threads[t].scan.ret = RunAlone(threads[t].scan)

\* a full scan and a single-tool scan have both returned findings; both
\* found the registry cell empty, so they ran at the same time
C27_Witness ==
  \E t, u \in ScanThreads :
     /\ threads[t].scan.cmd = "scan_security_cmd"
     /\ threads[u].scan.cmd = "scan_tool_security_cmd"
     /\ \A v \in {t, u} :
           /\ threads[v].scan.at = "done"
           /\ threads[v].slow
           /\ IsSome(threads[v].scan.ret)
           /\ threads[v].scan.ret[1].findings # <<>>

====
